---- MODULE Spec2Model ----
(***************************************************************************)
(* A model of the kiln actor core: the collision-event tracker of CarBlock *)
(* (src/kiln/actors/car.py), the A* planner over NavGrid                   *)
(* (src/kiln/actors/pathfinding.py) and the NPC steering policy            *)
(* (src/kiln/actors/npc.py).                                               *)
(*                                                                         *)
(* Numbers: geometry indices, entity ids and grid cells are integers as in *)
(* the code.  Contact-force magnitudes are integers (one unit of force).   *)
(* Python's None is NoForce for a force and NoEntity for an entity id.     *)
(***************************************************************************)
EXTENDS Integers, Sequences, FiniteSets, TLC

VARIABLES
    \* ---- CarBlock collision tracking (car.py:96-105)
    collision_events_this_step,     \* list of CollisionEvent of the last poll
    collision_tracked_ranges,       \* list of <<geom_start, geom_end, entity_id>>
    collision_ignore_ranges,        \* list of <<geom_start, geom_end>>
    collision_tracked_by_id,        \* key set of _collision_tracked_by_id
    active_collision_entity_ids,    \* _active_collision_entity_ids
    active_collision_max_force,     \* _active_collision_max_force: id -> force, NoForce = no key
    \* ---- the physics backend
    contacts_have_force,            \* get_contacts() returns force_a and force_b besides geom_a, geom_b
    \* ---- history of the tracker's observable behaviour (read by no action)
    hContact,                       \* id -> the last poll saw a qualifying contact with it
    hLastPhase,                     \* id -> phase of the last event emitted for it since the last reconfiguration
    hBeginForce,                    \* id -> max_force carried by its last BEGIN event
    hLastMeasured,                  \* id -> max force measured at the last force-measuring poll of its episode
    hLastPoll,                      \* id -> max force measured (0 if none was) at the last poll at which it was active
    hRemeasured,                    \* id -> a poll after the BEGIN poll of its episode measured a force for it
    hPolled,                        \* the last operation was a poll that read the contact data
    \* ---- one call of astar(grid, start, goal) (pathfinding.py:131-168)
    grid,                           \* the NavGrid: [width, height, blocked]
    astar_start, astar_goal,        \* the arguments of the call
    astar_pc,                       \* "idle", "loop" (in the while loop), "done" (returned)
    open_heap,                      \* the heap, as the set of its entries <<f, g, cell>>
    came_from,                      \* dict cell -> cell
    g_score,                        \* dict cell -> cost
    astar_result,                   \* the value returned: a list of cells, or NoPath
    \* ---- NPCBlock (npc.py:63-76) and the CarBlock control state it reads (car.py:91-92)
    goal_xy,                        \* _goal_xy: a point, or NoPoint
    prev_goal_dist,                 \* _prev_goal_dist: a squared distance, or NoDist
    stuck_counter,                  \* _stuck_counter
    nav_grid,                       \* _nav_grid: a NavGrid, or NoGrid
    waypoints_xy,                   \* _waypoints_xy: list of points
    waypoint_idx,                   \* _waypoint_idx
    last_xy,                        \* _last_xy
    yaw,                            \* _yaw, in quarter turns
    target_speed,                   \* _target_speed
    \* ---- what the last call of the NPC did (read by no action)
    policy_action,                  \* what policy_step returned: a DiscreteAction, "raise", or "none"
    policy_rule,                    \* the rule of policy_step that returned
    policy_picks,                   \* calls of pick_new_goal made by the last policy_step
    hUnplannedNear,                 \* the last policy_step was entered with a goal, no waypoints, the goal within tolerance
    hStillCalls,                    \* consecutive policy_step calls, up to the last, that saw no decrease of the target distance
    hReachedCalls,                  \* that run reached StuckSteps calls in the last policy_step
    hStillMeasured,                 \* the same run, counting only the calls that had a previous distance to compare
    hReachedMeasured,               \* that run reached StuckSteps calls in the last policy_step
    hRays,                          \* what sim.raycast answers during the last policy_step: [c, l, r]
    \* ---- CarBlock control state (car.py:91-94) and what step_control hands to the simulator
    target_yaw_rate,                \* _target_yaw_rate
    last_action,                    \* _last_action: a DiscreteAction, or "none"
    control_mode,                   \* config.control_mode
    sim_command,                    \* the simulator calls of the last step_control
    \* ---- the last call of a CarBlock control method or of a function that keeps no state
    call_op,                        \* the function called, "idle" before any call
    call_args,                      \* its arguments
    call_result,                    \* what it returned
    \* ---- main() of examples/genesis_demo.py: its tick loop
    loop_args,                      \* the command line: [npcs, bench, bench_mode, collisions]
    loop_pc,                        \* the statement of the loop body that runs next, "idle" outside main
    loop_step,                      \* step, the loop variable
    tick_calls                      \* the calls made on the agents and the simulator since the tick began

collisionVars == <<collision_events_this_step, collision_tracked_ranges, collision_ignore_ranges,
                   collision_tracked_by_id, active_collision_entity_ids, active_collision_max_force>>
collisionHist == <<hContact, hLastPhase, hBeginForce, hLastMeasured, hLastPoll, hRemeasured, hPolled>>

astarVars == <<grid, astar_start, astar_goal, astar_pc, open_heap, came_from, g_score, astar_result>>

npcVars == <<goal_xy, prev_goal_dist, stuck_counter, nav_grid, waypoints_xy, waypoint_idx,
             last_xy, yaw, target_speed>>
npcHist == <<policy_action, policy_rule, policy_picks, hUnplannedNear,
             hStillCalls, hReachedCalls, hStillMeasured, hReachedMeasured, hRays>>
carVars == <<target_yaw_rate, last_action, control_mode, sim_command>>
callVars == <<call_op, call_args, call_result>>
loopVars == <<loop_args, loop_pc, loop_step, tick_calls>>

vars == <<collisionVars, contacts_have_force, collisionHist, astarVars, npcVars, npcHist,
          carVars, callVars, loopVars>>

----------------------------------------------------------------------------
(* Bounds of the model *)

\* entities of the scene besides the car
NumEntities == 2
\* contact pairs the backend reports for one step
MaxContacts == 2
\* contact-force magnitudes are 1 .. MaxForce
MaxForce == 2
\* the planner's grids are GridW x GridH cells, at most MaxBlocked of them blocked
GridW == 4
GridH == 4
MaxBlocked == 2
\* NPCBlockConfig.stuck_steps and NPCBlockConfig.max_goal_samples of the agent
StuckSteps == 2
MaxGoalSamples == 2
\* the yaw the control model follows stays within MaxYaw quarter turns
MaxYaw == 2
\* NavGrid.build is given at most MaxObstacles obstacles
MaxObstacles == 2
\* simplify_path_cells is given any list of at most MaxPathLen cells
MaxPathLen == 4
\* _avoid_with_proximity is given at most MaxNearby obstacles
MaxNearby == 3
\* NPCs of the demo, and ticks of its loop
MaxNpcs == 2
MaxTicks == 2
NoForce == -1
NoEntity == 0

----------------------------------------------------------------------------
(* The scene: the car's own geometry range and the other entities *)

\* id(ent) of the entities that can be handed to set_collision_targets
EntityIds == 1 .. NumEntities

\* ent.geom_start / ent.geom_end: each entity owns a contiguous geometry range
\* of one geometry; the ranges are in the reverse order of the ids
GeomStart(e) == NumEntities + 1 - e
GeomEnd(e) == GeomStart(e) + 1

\* geometry index 0 is the car's, the rest are the entities'
Geoms == 0 .. NumEntities
Forces == 1 .. MaxForce
\* min_force: 0 is the default, no threshold
Thresholds == 0 .. MaxForce

\* self.entity.geom_start / geom_end
car_gs == 0
car_ge == 1

----------------------------------------------------------------------------
(* Helpers *)

Min(a, b) == IF a < b THEN a ELSE b
Max(a, b) == IF a > b THEN a ELSE b

Range(s) == {s[i] : i \in DOMAIN s}

\* sorted(S) for a finite set of integers
RECURSIVE SortedSeq(_)
SortedSeq(S) ==
    IF S = {} THEN <<>>
    ELSE LET m == CHOOSE x \in S : \A y \in S : x <= y
         IN <<m>> \o SortedSeq(S \ {m})

\* sequences over S of length at most n
SeqsUpTo(S, n) == UNION {[1 .. k -> S] : k \in 0 .. n}

----------------------------------------------------------------------------
(* CarBlock.set_collision_targets *)

\* the loops at car.py:185-197 (every entity of the scene has a geometry range)
RECURSIVE TrackedRangesOf(_)
TrackedRangesOf(ents) ==
    IF ents = <<>> THEN <<>>
    ELSE <<<<GeomStart(Head(ents)), GeomEnd(Head(ents)), Head(ents)>>>> \o TrackedRangesOf(Tail(ents))

RECURSIVE IgnoreRangesOf(_)
IgnoreRangesOf(ents) ==
    IF ents = <<>> THEN <<>>
    ELSE <<<<GeomStart(Head(ents)), GeomEnd(Head(ents))>>>> \o IgnoreRangesOf(Tail(ents))

EmptyForceMap == [e \in EntityIds |-> NoForce]

\* a reconfiguration that keeps the active set and the stored forces
SetCollisionTargetsKeepsActive(tracked, ignored) ==
    /\ collision_tracked_ranges' = TrackedRangesOf(tracked)
    /\ collision_ignore_ranges' = IgnoreRangesOf(ignored)
    /\ collision_tracked_by_id' = Range(tracked)
    /\ UNCHANGED <<active_collision_entity_ids, active_collision_max_force>>
    /\ UNCHANGED <<collision_events_this_step, contacts_have_force, astarVars, npcVars, npcHist, carVars>>
    /\ hContact' = [e \in EntityIds |-> FALSE]
    /\ hLastPhase' = [e \in EntityIds |-> "none"]
    /\ hBeginForce' = EmptyForceMap
    /\ hLastMeasured' = EmptyForceMap
    /\ hLastPoll' = EmptyForceMap
    /\ hRemeasured' = [e \in EntityIds |-> FALSE]
    /\ hPolled' = FALSE

\* set_collision_targets (car.py:152-197)
SetCollisionTargets(tracked, ignored) ==
    /\ collision_tracked_ranges' = TrackedRangesOf(tracked)
    /\ collision_ignore_ranges' = IgnoreRangesOf(ignored)
    /\ collision_tracked_by_id' = Range(tracked)
    /\ active_collision_entity_ids' = {}
    /\ active_collision_max_force' = EmptyForceMap
    /\ UNCHANGED <<collision_events_this_step, contacts_have_force, astarVars, npcVars, npcHist, carVars>>
    \* a new sequence of polls starts
    /\ hContact' = [e \in EntityIds |-> FALSE]
    /\ hLastPhase' = [e \in EntityIds |-> "none"]
    /\ hBeginForce' = EmptyForceMap
    /\ hLastMeasured' = EmptyForceMap
    /\ hLastPoll' = EmptyForceMap
    /\ hRemeasured' = [e \in EntityIds |-> FALSE]
    /\ hPolled' = FALSE

----------------------------------------------------------------------------
(* CarBlock.poll_collision_events *)

\* A contact of the backend's contact data: geometry indices geom_a[i], geom_b[i]
\* of two distinct geometries, and the magnitude f of the contact force
\* (force_a[i] = -force_b[i], of one norm).
Contacts == {c \in [a : Geoms, b : Geoms, f : Forces] : c.a # c.b}

\* in_a, in_b, mask (car.py:246-248)
InCarRange(g) == g >= car_gs /\ g < car_ge
Mask(c) == InCarRange(c.a) \/ InCarRange(c.b)

\* torch.where(in_a, geom_b, geom_a) (car.py:252)
OtherGeom(c) == IF InCarRange(c.a) THEN c.b ELSE c.a

\* in_any_range (car.py:260-264)
InAnyRange(g, ranges) == \E i \in DOMAIN ranges : ranges[i][1] <= g /\ g < ranges[i][2]

\* a lookup that never reads the ignored ranges
GeomToTrackedIdNoIgnore(g) ==
    LET hits == {i \in DOMAIN collision_tracked_ranges :
                    collision_tracked_ranges[i][1] <= g /\ g < collision_tracked_ranges[i][2]}
    IN IF hits = {} THEN NoEntity
       ELSE collision_tracked_ranges[CHOOSE i \in hits : \A j \in hits : i <= j][3]

\* geom_to_tracked_id (car.py:266-272): the first tracked range that holds g
GeomToTrackedId(g) ==
    IF InAnyRange(g, collision_ignore_ranges) THEN NoEntity
    ELSE LET hits == {i \in DOMAIN collision_tracked_ranges :
                        collision_tracked_ranges[i][1] <= g /\ g < collision_tracked_ranges[i][2]}
         IN IF hits = {} THEN NoEntity
            ELSE collision_tracked_ranges[CHOOSE i \in hits : \A j \in hits : i <= j][3]

\* force_mag is not None (car.py:227-228, 255-258): a threshold was requested
\* and the contact data holds force_a and force_b
ForceMeasured(min_force, has_force) == min_force > 0 /\ has_force

EmptyAcc == [ids |-> {}, max_force |-> EmptyForceMap, counts |-> [e \in EntityIds |-> 0]]

\* an iteration that never drops a contact for its force
AccumulateOneUnfiltered(acc, c, min_force, measured) ==
    LET eid == GeomToTrackedId(OtherGeom(c))
    IN IF eid = NoEntity THEN acc
       ELSE [ids |-> acc.ids \cup {eid},
             max_force |-> IF measured /\ (acc.max_force[eid] = NoForce \/ c.f > acc.max_force[eid])
                           THEN [acc.max_force EXCEPT ![eid] = c.f]
                           ELSE acc.max_force,
             counts |-> [acc.counts EXCEPT ![eid] = @ + 1]]

\* one iteration of the loop over the car's contacts (car.py:276-289)
AccumulateOne(acc, c, min_force, measured) ==
    LET eid == GeomToTrackedId(OtherGeom(c))
    IN IF eid = NoEntity THEN acc
       ELSE IF measured /\ c.f < min_force THEN acc
       ELSE [ids |-> acc.ids \cup {eid},
             max_force |-> IF measured /\ (acc.max_force[eid] = NoForce \/ c.f > acc.max_force[eid])
                           THEN [acc.max_force EXCEPT ![eid] = c.f]
                           ELSE acc.max_force,
             counts |-> [acc.counts EXCEPT ![eid] = @ + 1]]

\* current_ids, current_max_force, current_counts after the loop (car.py:235-289)
RECURSIVE Accumulate(_, _, _, _)
Accumulate(acc, cs, min_force, measured) ==
    IF cs = <<>> THEN acc
    ELSE Accumulate(AccumulateOne(acc, Head(cs), min_force, measured), Tail(cs), min_force, measured)

Current(contacts, min_force, has_force) ==
    Accumulate(EmptyAcc, SelectSeq(contacts, Mask), min_force, ForceMeasured(min_force, has_force))

\* BEGIN events that carry no force
BeginEventNoForce(eid, cur) ==
    [phase |-> "begin", other_entity_id |-> eid,
     max_force |-> NoForce, contact_count |-> cur.counts[eid]]

BeginEvent(eid, cur) ==
    [phase |-> "begin", other_entity_id |-> eid,
     max_force |-> cur.max_force[eid], contact_count |-> cur.counts[eid]]

\* END events that keep a contact count
EndEventWithCount(eid) ==
    [phase |-> "end", other_entity_id |-> eid,
     max_force |-> active_collision_max_force[eid], contact_count |-> 1]

EndEvent(eid) ==
    [phase |-> "end", other_entity_id |-> eid,
     max_force |-> active_collision_max_force[eid], contact_count |-> 0]

\* sorted(begins), sorted(ends) (car.py:295, 312)
EmitOrder(S) == SortedSeq(S)

RECURSIVE BeginEvents(_, _)
BeginEvents(order, cur) ==
    IF order = <<>> THEN <<>>
    ELSE (IF Head(order) \in collision_tracked_by_id THEN <<BeginEvent(Head(order), cur)>> ELSE <<>>)
         \o BeginEvents(Tail(order), cur)

RECURSIVE EndEvents(_)
EndEvents(order) ==
    IF order = <<>> THEN <<>>
    ELSE (IF Head(order) \in collision_tracked_by_id THEN <<EndEvent(Head(order))>> ELSE <<>>)
         \o EndEvents(Tail(order))

\* the END loop before the BEGIN loop
EmitEventsEndFirst(begins, ends, cur) == EndEvents(EmitOrder(ends)) \o BeginEvents(EmitOrder(begins), cur)

\* the events of one poll (car.py:291-327): the BEGIN loop, then the END loop
EmitEvents(begins, ends, cur) == BeginEvents(EmitOrder(begins), cur) \o EndEvents(EmitOrder(ends))

\* a map that keeps the peak of the episode
MaxForceAfterPeak(begins, ends, cur) ==
    [e \in EntityIds |->
        IF e \in ends /\ e \in collision_tracked_by_id THEN NoForce
        ELSE IF e \in begins /\ e \in collision_tracked_by_id THEN Max(0, cur.max_force[e])
        ELSE Max(active_collision_max_force[e], cur.max_force[e])]

\* a map that keeps a force only for the entities whose force was measured
MaxForceAfterMeasuredOnly(begins, ends, cur) ==
    [e \in EntityIds |->
        IF cur.max_force[e] # NoForce THEN cur.max_force[e]
        ELSE IF e \in ends /\ e \in collision_tracked_by_id THEN NoForce
        ELSE active_collision_max_force[e]]

\* _active_collision_max_force after the poll (car.py:308, 325, 330-331)
MaxForceAfter(begins, ends, cur) ==
    [e \in EntityIds |->
        IF cur.max_force[e] # NoForce THEN cur.max_force[e]
        ELSE IF e \in ends /\ e \in collision_tracked_by_id THEN NoForce
        ELSE IF e \in begins /\ e \in collision_tracked_by_id THEN 0
        ELSE active_collision_max_force[e]]

(* The history the claims speak of, computed from the raw contact data and  *)
(* from nothing the tracker keeps.                                         *)

\* the force magnitudes of this tick's contacts between the car and entity e
\* that count (not ignored, attributed to e, at or above a measured threshold)
QualifyingForces(e, contacts, min_force, has_force) ==
    {contacts[i].f : i \in {j \in DOMAIN contacts :
        /\ Mask(contacts[j])
        /\ GeomToTrackedId(OtherGeom(contacts[j])) = e
        /\ (ForceMeasured(min_force, has_force) => contacts[j].f >= min_force)}}

SetMax(S) == CHOOSE x \in S : \A y \in S : y <= x

\* the phases of the events emitted for e, in order
PhasesOf(e, events) ==
    LET mine == SelectSeq(events, LAMBDA ev : ev.other_entity_id = e)
    IN [i \in DOMAIN mine |-> mine[i].phase]

\* the max_force carried by the events of phase ph emitted for e
ForcesOf(e, ph, events) ==
    {events[i].max_force : i \in {j \in DOMAIN events :
        events[j].other_entity_id = e /\ events[j].phase = ph}}

\* the maximum of the forces measured for an entity, NoForce if none was
MeasuredMax(fs, meas) == IF fs # {} /\ meas THEN SetMax(fs) ELSE NoForce

HistoryAfterPoll(contacts, min_force, has_force) ==
    \E meas \in {ForceMeasured(min_force, has_force)} :
    \E q \in {[e \in EntityIds |-> QualifyingForces(e, contacts, min_force, has_force)]} :
    \E m \in {[e \in EntityIds |-> MeasuredMax(q[e], meas)]} :
    \E ph \in {[e \in EntityIds |-> PhasesOf(e, collision_events_this_step')]} :
       /\ hContact' = [e \in EntityIds |-> q[e] # {}]
       /\ hLastPhase' = [e \in EntityIds |->
            IF ph[e] = <<>> THEN hLastPhase[e] ELSE ph[e][Len(ph[e])]]
       /\ hBeginForce' = [e \in EntityIds |->
            LET fs == ForcesOf(e, "begin", collision_events_this_step')
            IN IF fs = {} THEN hBeginForce[e] ELSE CHOOSE f \in fs : TRUE]
       \* the three below are kept through the poll that ends the episode
       \* and forgotten at the next
       /\ hLastMeasured' = [e \in EntityIds |->
            IF m[e] # NoForce THEN m[e]
            ELSE IF ~hContact[e] THEN NoForce
            ELSE hLastMeasured[e]]
       /\ hLastPoll' = [e \in EntityIds |->
            IF q[e] # {} THEN (IF meas THEN m[e] ELSE 0)
            ELSE IF ~hContact[e] THEN NoForce
            ELSE hLastPoll[e]]
       /\ hRemeasured' = [e \in EntityIds |->
            IF ~hContact[e] THEN FALSE
            ELSE IF q[e] # {} THEN hRemeasured[e] \/ meas
            ELSE hRemeasured[e]]
       /\ hPolled' = TRUE

\* a diff that never drops an id from the active set
DiffAndEmitKeepActive(cur) ==
    LET begins == cur.ids \ active_collision_entity_ids
        ends == active_collision_entity_ids \ cur.ids
    IN /\ collision_events_this_step' = EmitEvents(begins, ends, cur)
       /\ active_collision_max_force' = MaxForceAfter(begins, ends, cur)
       /\ active_collision_entity_ids' = active_collision_entity_ids \cup cur.ids
       /\ UNCHANGED <<collision_tracked_ranges, collision_ignore_ranges, collision_tracked_by_id>>

\* the diff and the events of a poll whose loop left `cur` (car.py:291-333)
DiffAndEmit(cur) ==
    LET begins == cur.ids \ active_collision_entity_ids
        ends == active_collision_entity_ids \ cur.ids
    IN /\ collision_events_this_step' = EmitEvents(begins, ends, cur)
       /\ active_collision_max_force' = MaxForceAfter(begins, ends, cur)
       /\ active_collision_entity_ids' = cur.ids
       /\ UNCHANGED <<collision_tracked_ranges, collision_ignore_ranges, collision_tracked_by_id>>

\* poll_collision_events(step_idx, min_force) with the backend's contact data
\* (geom_a/geom_b of `contacts`; has_force: force_a and force_b are present).
\* step_idx is copied into the events and read by nothing; it is left out.
PollStep(contacts, min_force) ==
    /\ collision_tracked_ranges # <<>>
    /\ DiffAndEmit(Current(contacts, min_force, contacts_have_force))
    /\ HistoryAfterPoll(contacts, min_force, contacts_have_force)
    /\ UNCHANGED <<contacts_have_force, astarVars, npcVars, npcHist, carVars>>

PollCollisionEvents(contacts, min_force) == PollStep(contacts, min_force) /\ UNCHANGED <<callVars, loopVars>>

\* the poll when torch cannot be imported or geom_a is no tensor
\* (car.py:239-241): current_ids is empty and the diff still runs
PollWithoutTensorsStep(min_force) ==
    /\ collision_tracked_ranges # <<>>
    /\ DiffAndEmit(EmptyAcc)
    /\ HistoryAfterPoll(<<>>, min_force, FALSE)
    /\ UNCHANGED <<contacts_have_force, astarVars, npcVars, npcHist, carVars>>

PollWithoutTensors(min_force) == PollWithoutTensorsStep(min_force) /\ UNCHANGED <<callVars, loopVars>>

\* the early returns of poll_collision_events (car.py:205-224): no tracked
\* range, or the entity gives no contact data; only the event list is reset
PollEarlyReturnStep ==
    /\ collision_events_this_step' = <<>>
    /\ UNCHANGED <<collision_tracked_ranges, collision_ignore_ranges, collision_tracked_by_id,
                   active_collision_entity_ids, active_collision_max_force>>
    /\ UNCHANGED <<hContact, hLastPhase, hBeginForce, hLastMeasured, hLastPoll, hRemeasured>>
    /\ hPolled' = FALSE
    /\ UNCHANGED <<contacts_have_force, astarVars, npcVars, npcHist, carVars>>

PollEarlyReturn == PollEarlyReturnStep /\ UNCHANGED <<callVars, loopVars>>

----------------------------------------------------------------------------
(* NavGrid (pathfinding.py:30-128) *)

\* "no path": astar's None
NoPath == <<>>

\* a cell is <<ix, iy>>; blocked[iy + 1][ix + 1] is the code's blocked[iy][ix]
InBounds(g, c) == 0 <= c[1] /\ c[1] < g.width /\ 0 <= c[2] /\ c[2] < g.height

IsBlocked(g, c) == g.blocked[c[2] + 1][c[1] + 1]

\* the steps of neighbors4, in its order
Dirs4 == << <<1, 0>>, <<-1, 0>>, <<0, 1>>, <<0, -1>> >>

\* neighbours that are in bounds, blocked or not
Neighbors4Unchecked(g, c) ==
    SelectSeq([i \in 1 .. 4 |-> <<c[1] + Dirs4[i][1], c[2] + Dirs4[i][2]>>],
              LAMBDA n : InBounds(g, n))

\* NavGrid.neighbors4: the in-bounds, unblocked neighbours, in order
Neighbors4(g, c) ==
    SelectSeq([i \in 1 .. 4 |-> <<c[1] + Dirs4[i][1], c[2] + Dirs4[i][2]>>],
              LAMBDA n : InBounds(g, n) /\ ~IsBlocked(g, n))

----------------------------------------------------------------------------
(* astar (pathfinding.py:131-168) *)

Abs(x) == IF x < 0 THEN -x ELSE x

\* h: the Manhattan distance to the goal
H(c, goal) == Abs(c[1] - goal[1]) + Abs(c[2] - goal[2])

\* the order of Python tuples: <<f, g, <<ix, iy>>>>
EntryLess(x, y) ==
    \/ x[1] < y[1]
    \/ x[1] = y[1] /\ x[2] < y[2]
    \/ x[1] = y[1] /\ x[2] = y[2] /\ x[3][1] < y[3][1]
    \/ x[1] = y[1] /\ x[2] = y[2] /\ x[3][1] = y[3][1] /\ x[3][2] < y[3][2]

\* a pop of the greatest entry
HeapMax(heap) == CHOOSE x \in heap : \A y \in heap : y = x \/ EntryLess(y, x)

\* heapq.heappop: the least entry.  No entry is pushed twice (a push follows a
\* strict decrease of the cell's g_score), so the heap is the set of its entries.
HeapMin(heap) == CHOOSE x \in heap : \A y \in heap : y = x \/ EntryLess(x, y)

\* the entry checks that wave a blocked endpoint through
EndpointsOkUnblockedUnchecked(g, start, goal) == InBounds(g, start) /\ InBounds(g, goal)

\* the entry checks of astar (pathfinding.py:137-140)
EndpointsOk(g, start, goal) ==
    /\ InBounds(g, start) /\ InBounds(g, goal)
    /\ ~IsBlocked(g, start) /\ ~IsBlocked(g, goal)

\* _reconstruct (pathfinding.py:196-202)
RECURSIVE ReconstructBack(_, _)
ReconstructBack(cf, cur) ==
    IF cur \in DOMAIN cf THEN <<cur>> \o ReconstructBack(cf, cf[cur]) ELSE <<cur>>

Reverse(seq) == [i \in 1 .. Len(seq) |-> seq[Len(seq) + 1 - i]]

Reconstruct(cf, cur) == Reverse(ReconstructBack(cf, cur))

\* the state of the search when the loop is entered (pathfinding.py:146-150)
AstarEnter(start, goal) ==
    [pc |-> "loop", open |-> {<<H(start, goal), 0, start>>},
     came_from |-> <<>>, g_score |-> (start :> 0), result |-> NoPath]

\* the for loop over the neighbours of cur (pathfinding.py:161-166)
RECURSIVE RelaxAll(_, _, _, _, _)
RelaxAll(st, nbs, cur, g, goal) ==
    IF nbs = <<>> THEN st
    ELSE LET nb == Head(nbs)
             ng == g + 1
             better == nb \notin DOMAIN st.g_score \/ ng < st.g_score[nb]
         IN RelaxAll(IF better
                     THEN [st EXCEPT !.came_from = (nb :> cur) @@ @,
                                     !.g_score = (nb :> ng) @@ @,
                                     !.open = @ \cup {<<ng + H(nb, goal), ng, nb>>}]
                     ELSE st,
                     Tail(nbs), cur, g, goal)

\* a pass that reads the least entry and leaves it on the heap
AstarIteratePeek(g, goal, st) ==
    IF st.open = {} THEN [st EXCEPT !.pc = "done", !.result = NoPath]
    ELSE LET top == HeapMin(st.open)
             cur == top[3]
         IN IF cur = goal
            THEN [st EXCEPT !.pc = "done", !.result = Reconstruct(st.came_from, cur)]
            ELSE IF top[2] > st.g_score[cur] THEN st
            ELSE RelaxAll(st, Neighbors4(g, cur), cur, top[2], goal)

\* one pass of the while loop (pathfinding.py:152-168)
AstarIterate(g, goal, st) ==
    IF st.open = {} THEN [st EXCEPT !.pc = "done", !.result = NoPath]
    ELSE LET top == HeapMin(st.open)
             cur == top[3]
             popped == [st EXCEPT !.open = @ \ {top}]
         IN IF cur = goal
            THEN [popped EXCEPT !.pc = "done", !.result = Reconstruct(st.came_from, cur)]
            ELSE IF top[2] > st.g_score[cur] THEN popped
            ELSE RelaxAll(popped, Neighbors4(g, cur), cur, top[2], goal)

\* the whole call, for the callers of astar
RECURSIVE AstarRun(_, _, _)
AstarRun(g, goal, st) == IF st.pc = "done" THEN st.result ELSE AstarRun(g, goal, AstarIterate(g, goal, st))

Astar(g, start, goal) ==
    IF ~EndpointsOk(g, start, goal) THEN NoPath ELSE AstarRun(g, goal, AstarEnter(start, goal))

SearchState == [pc |-> astar_pc, open |-> open_heap, came_from |-> came_from,
                g_score |-> g_score, result |-> astar_result]

SetSearchState(st) ==
    /\ astar_pc' = st.pc
    /\ open_heap' = st.open
    /\ came_from' = st.came_from
    /\ g_score' = st.g_score
    /\ astar_result' = st.result

\* astar(grid, start, goal) is called: the entry checks and the first push
AstarCall(start, goal) ==
    /\ astar_pc = "idle"
    /\ astar_start' = start
    /\ astar_goal' = goal
    /\ IF EndpointsOk(grid, start, goal)
       THEN SetSearchState(AstarEnter(start, goal))
       ELSE SetSearchState([SearchState EXCEPT !.pc = "done", !.result = NoPath])
    /\ UNCHANGED grid
    /\ UNCHANGED <<loopVars, collisionVars, contacts_have_force, collisionHist, npcVars, npcHist, carVars, callVars>>

\* one pass of the while loop
AstarLoop ==
    /\ astar_pc = "loop"
    /\ \E st \in {AstarIterate(grid, astar_goal, SearchState)} : SetSearchState(st)
    /\ UNCHANGED <<grid, astar_start, astar_goal>>
    /\ UNCHANGED <<loopVars, collisionVars, contacts_have_force, collisionHist, npcVars, npcHist, carVars, callVars>>

----------------------------------------------------------------------------
(* World coordinates of the NPC (npc.py, pathfinding.py:104-120, 171-193)  *)
(*                                                                         *)
(* One unit of length is 0.001, so that the configured lengths are         *)
(* integers.  A distance math.hypot(dx, dy) is kept as its square, the     *)
(* integer dx*dx + dy*dy, and distances are compared on the squares, which *)
(* is exact.  Python's None is NoPoint, NoDist, NoGrid.                    *)

NoPoint == <<>>
NoDist == -1
NoGrid == [width |-> 0, height |-> 0, blocked |-> <<>>, xy_min |-> <<0, 0>>, cell_size |-> 1]

\* NPCBlockConfig (npc.py:16-40), in units of 0.001
goal_tolerance == 500
cruise_speed == 2000
avoid_radius == 1000
emergency_brake_radius == 600
progress_eps == 1
nav_cell_size == 500
waypoint_tolerance == 350
raycast_length == 2000
avoid_distance == 1250
brake_distance == 500
\* tan(heading_threshold) = tan(0.35) = 0.36503, as a ratio of integers
HeadingTanNum == 36503
HeadingTanDen == 100000

\* math.hypot(dx, dy), squared
Hypot2(dx, dy) == dx * dx + dy * dy

Dist2(p, q) == Hypot2(q[1] - p[1], q[2] - p[2])

\* hypot <= r for a length r
Within(d2, r) == d2 <= r * r

\* a clamp that lets the index reach width and height
WorldToCellUpToSize(g, p) ==
    LET ix == (p[1] - g.xy_min[1]) \div g.cell_size
        iy == (p[2] - g.xy_min[2]) \div g.cell_size
    IN <<Max(0, Min(g.width, ix)), Max(0, Min(g.height, iy))>>

\* NavGrid.world_to_cell: floor of the offset in cells, clamped into the grid
WorldToCell(g, p) ==
    LET ix == (p[1] - g.xy_min[1]) \div g.cell_size
        iy == (p[2] - g.xy_min[2]) \div g.cell_size
    IN <<Max(0, Min(g.width - 1, ix)), Max(0, Min(g.height - 1, iy))>>

\* NavGrid.cell_center_world: (ix + 0.5) * cell_size is (2 ix + 1) * cell_size / 2
CellCenterWorld(g, c) ==
    <<g.xy_min[1] + ((2 * c[1] + 1) * g.cell_size) \div 2,
      g.xy_min[2] + ((2 * c[2] + 1) * g.cell_size) \div 2>>

\* the loop of simplify_path_cells: i runs over 2 .. Len(path) - 1 (1-based)
RECURSIVE SimplifyFrom(_, _, _, _)
SimplifyFrom(path, i, prev_dir, out) ==
    IF i > Len(path) - 1 THEN Append(out, path[Len(path)])
    ELSE LET cur == path[i]
             nxt == path[i + 1]
             d == <<nxt[1] - cur[1], nxt[2] - cur[2]>>
         IN SimplifyFrom(path, i + 1, d, IF d # prev_dir THEN Append(out, cur) ELSE out)

\* a simplification whose first direction is no step of the path
SimplifyPathCellsNoFirstDir(path) ==
    IF Len(path) <= 2 THEN path
    ELSE SimplifyFrom(path, 2, <<0, 0>>, <<path[1]>>)

\* a simplification that keeps the two ends only
SimplifyPathCellsEnds(path) ==
    IF Len(path) <= 2 THEN path
    ELSE <<path[1], path[Len(path)]>>

\* a simplification that leaves out the second cell of the path
SimplifyPathCellsSkipSecond(path) ==
    IF Len(path) <= 2 THEN path ELSE <<path[1]>> \o SubSeq(path, 3, Len(path))

\* simplify_path_cells
SimplifyPathCells(path) ==
    IF Len(path) <= 2 THEN path
    ELSE SimplifyFrom(path, 2, <<path[2][1] - path[1][1], path[2][2] - path[1][2]>>, <<path[1]>>)

\* cells_to_waypoints
CellsToWaypoints(g, path) == [i \in 1 .. Len(path) |-> CellCenterWorld(g, path[i])]

----------------------------------------------------------------------------
(* NPCBlock (npc.py)                                                       *)
(*                                                                         *)
(* The operators work on the record of the agent's fields, so that         *)
(* policy_step can call pick_new_goal in its middle.  The inputs of a call *)
(* are the pose the simulator reports (NoPoint when the pose getter        *)
(* raises, as before scene.build()), the obstacles handed in, and the      *)
(* draws of the random generator.                                          *)

NpcState == [goal_xy |-> goal_xy, prev_goal_dist |-> prev_goal_dist, stuck_counter |-> stuck_counter,
             nav_grid |-> nav_grid, waypoints_xy |-> waypoints_xy, waypoint_idx |-> waypoint_idx,
             last_xy |-> last_xy]

SetNpcState(st) ==
    /\ goal_xy' = st.goal_xy
    /\ prev_goal_dist' = st.prev_goal_dist
    /\ stuck_counter' = st.stuck_counter
    /\ nav_grid' = st.nav_grid
    /\ waypoints_xy' = st.waypoints_xy
    /\ waypoint_idx' = st.waypoint_idx
    /\ last_xy' = st.last_xy

\* _get_xy (npc.py:202-213): the pose, cached; the cached one if the getter raises
GetXY(st, pose) == IF pose = NoPoint THEN st.last_xy ELSE pose

AfterGetXY(st, pose) == [st EXCEPT !.last_xy = GetXY(st, pose)]

\* the for loop of pick_new_goal (npc.py:96-112); the else branch is the fallback
RECURSIVE SampleGoals(_, _, _, _)
RECURSIVE SampleTry(_, _, _, _, _)
SampleGoals(st, start, rnd, i) ==
    IF i > Max(1, MaxGoalSamples)
    THEN [st EXCEPT !.goal_xy = rnd.fallback, !.waypoints_xy = <<>>, !.waypoint_idx = 0]
    ELSE SampleTry(st, start, rnd, i,
                   Astar(st.nav_grid, start, WorldToCell(st.nav_grid, rnd.samples[i])))

\* the body of that loop (npc.py:101-107), path the result of astar
SampleTry(st, start, rnd, i, path) ==
    IF path = NoPath THEN SampleGoals(st, start, rnd, i + 1)
    ELSE [st EXCEPT !.waypoints_xy = CellsToWaypoints(st.nav_grid, SimplifyPathCells(path)),
                    !.waypoint_idx = 0,
                    !.goal_xy = rnd.samples[i]]

\* a pick that keeps the previous goal distance
PickNewGoalKeepsDist(st, pose, rnd) ==
    LET s1 == AfterGetXY(st, pose)
        s2 == IF st.nav_grid # NoGrid
              THEN SampleGoals(s1, WorldToCell(st.nav_grid, s1.last_xy), rnd, 1)
              ELSE [st EXCEPT !.goal_xy = rnd.samples[1]]
    IN [s2 EXCEPT !.stuck_counter = 0]

\* pick_new_goal (npc.py:88-118)
PickNewGoal(st, pose, rnd) ==
    LET s1 == AfterGetXY(st, pose)
        s2 == IF st.nav_grid # NoGrid
              THEN SampleGoals(s1, WorldToCell(st.nav_grid, s1.last_xy), rnd, 1)
              ELSE [st EXCEPT !.goal_xy = rnd.samples[1]]
    IN [s2 EXCEPT !.prev_goal_dist = NoDist, !.stuck_counter = 0]

\* a tracking that looks for the first waypoint out of reach from the start
\* of the list on every call
AdvanceWaypointsFromStart(wps, idx, p) ==
    LET far == {i \in 0 .. Len(wps) - 1 : ~Within(Dist2(p, wps[i + 1]), waypoint_tolerance)}
    IN IF far = {} THEN Len(wps) ELSE CHOOSE i \in far : \A j \in far : i <= j

\* the while loop of waypoint tracking (npc.py:136-141); idx counts from 0
RECURSIVE AdvanceWaypoints(_, _, _)
AdvanceWaypoints(wps, idx, p) ==
    IF idx < Len(wps) /\ Within(Dist2(p, wps[idx + 1]), waypoint_tolerance)
    THEN AdvanceWaypoints(wps, idx + 1, p)
    ELSE idx

\* target_dist >= prev_goal_dist - progress_eps on the squares cur = target_dist^2,
\* prev = prev_goal_dist^2:  sqrt(cur) + eps >= sqrt(prev)  iff
\* 2 eps sqrt(cur) >= prev - cur - eps^2 =: r  iff  r <= 0 or 4 eps^2 cur >= r^2.
\* Squared distances stay below 6250000, so r > 5000 makes r^2 exceed 4 eps^2 cur.
NoProgress(cur, prev) ==
    LET r == prev - cur - progress_eps * progress_eps
    IN r <= 0 \/ (r <= 5000 /\ 4 * progress_eps * progress_eps * cur >= r * r)

\* (cos yaw, sin yaw) for a yaw of q quarter turns
Forward(q) ==
    CASE q % 4 = 0 -> <<1, 0>>
      [] q % 4 = 1 -> <<0, 1>>
      [] q % 4 = 2 -> <<-1, 0>>
      [] q % 4 = 3 -> <<0, -1>>

\* a loop in which the last of the nearest obstacles decides
RECURSIVE AvoidLoopLastNearest(_, _, _, _, _)
AvoidLoopLastNearest(obs, i, p, f, best) ==
    IF i > Len(obs) THEN [brake |-> FALSE, best |-> best]
    ELSE LET o == obs[i]
             dx == o.pos[1] - p[1]
             dy == o.pos[2] - p[2]
             d2 == Hypot2(dx, dy)
             proj == dx * f[1] + dy * f[2]
         IN IF o.kind # "entity" THEN AvoidLoopLastNearest(obs, i + 1, p, f, best)
            ELSE IF d2 = 0 THEN AvoidLoopLastNearest(obs, i + 1, p, f, best)
            ELSE IF proj <= 0 THEN AvoidLoopLastNearest(obs, i + 1, p, f, best)
            ELSE IF Within(d2, emergency_brake_radius) THEN [brake |-> TRUE, best |-> best]
            ELSE IF Within(d2, avoid_radius) /\ (best = NoPoint \/ d2 <= best[1])
                 THEN AvoidLoopLastNearest(obs, i + 1, p, f, <<d2, f[1] * dy - f[2] * dx>>)
                 ELSE AvoidLoopLastNearest(obs, i + 1, p, f, best)

\* a loop that ends at the first obstacle whose position cannot be read
RECURSIVE AvoidLoopEndsAtUnposed(_, _, _, _, _)
AvoidLoopEndsAtUnposed(obs, i, p, f, best) ==
    IF i > Len(obs) THEN [brake |-> FALSE, best |-> best]
    ELSE LET o == obs[i]
             dx == o.pos[1] - p[1]
             dy == o.pos[2] - p[2]
             d2 == Hypot2(dx, dy)
             proj == dx * f[1] + dy * f[2]
         IN IF o.kind = "unposed" THEN [brake |-> FALSE, best |-> best]
            ELSE IF o.kind # "entity" THEN AvoidLoopEndsAtUnposed(obs, i + 1, p, f, best)
            ELSE IF d2 = 0 THEN AvoidLoopEndsAtUnposed(obs, i + 1, p, f, best)
            ELSE IF proj <= 0 THEN AvoidLoopEndsAtUnposed(obs, i + 1, p, f, best)
            ELSE IF Within(d2, emergency_brake_radius) THEN [brake |-> TRUE, best |-> best]
            ELSE IF Within(d2, avoid_radius) /\ (best = NoPoint \/ d2 < best[1])
                 THEN AvoidLoopEndsAtUnposed(obs, i + 1, p, f, <<d2, f[1] * dy - f[2] * dx>>)
                 ELSE AvoidLoopEndsAtUnposed(obs, i + 1, p, f, best)

\* the for loop of _avoid_with_proximity (npc.py:271-295): "DECELERATE" when it
\* returns from inside the loop, else the nearest obstacle's <<dist^2, cross>>
\* in best (NoPoint for None)
RECURSIVE AvoidLoop(_, _, _, _, _)
AvoidLoop(obs, i, p, f, best) ==
    IF i > Len(obs) THEN [brake |-> FALSE, best |-> best]
    ELSE LET o == obs[i]
             dx == o.pos[1] - p[1]
             dy == o.pos[2] - p[2]
             d2 == Hypot2(dx, dy)
             proj == dx * f[1] + dy * f[2]
         IN IF o.kind # "entity" THEN AvoidLoop(obs, i + 1, p, f, best)
            ELSE IF d2 = 0 THEN AvoidLoop(obs, i + 1, p, f, best)
            ELSE IF proj <= 0 THEN AvoidLoop(obs, i + 1, p, f, best)
            ELSE IF Within(d2, emergency_brake_radius) THEN [brake |-> TRUE, best |-> best]
            ELSE IF Within(d2, avoid_radius) /\ (best = NoPoint \/ d2 < best[1])
                 THEN AvoidLoop(obs, i + 1, p, f, <<d2, f[1] * dy - f[2] * dx>>)
                 ELSE AvoidLoop(obs, i + 1, p, f, best)

\* an avoidance that looks at the first obstacle only
AvoidWithProximityHeadOnly(obs, pose, q) ==
    IF pose = NoPoint THEN "raise"
    ELSE LET r == AvoidLoop(SubSeq(obs, 1, Min(1, Len(obs))), 1, pose, Forward(q), NoPoint)
         IN IF r.brake THEN "DECELERATE"
            ELSE IF r.best = NoPoint THEN "none"
            ELSE IF r.best[2] > 0 THEN "TURN_RIGHT" ELSE "TURN_LEFT"

\* an avoidance that turns towards the nearest obstacle
AvoidWithProximityTowards(obs, pose, q) ==
    IF pose = NoPoint THEN "raise"
    ELSE LET r == AvoidLoop(obs, 1, pose, Forward(q), NoPoint)
         IN IF r.brake THEN "DECELERATE"
            ELSE IF r.best = NoPoint THEN "none"
            ELSE IF r.best[2] > 0 THEN "TURN_LEFT" ELSE "TURN_RIGHT"

\* _avoid_with_proximity (npc.py:263-301): a DiscreteAction, "none" for None,
\* "raise" when the pose getter raises
AvoidWithProximity(obs, pose, q) ==
    IF pose = NoPoint THEN "raise"
    ELSE LET r == AvoidLoop(obs, 1, pose, Forward(q), NoPoint)
         IN IF r.brake THEN "DECELERATE"
            ELSE IF r.best = NoPoint THEN "none"
            ELSE IF r.best[2] > 0 THEN "TURN_RIGHT" ELSE "TURN_LEFT"

\* a RaycastHit (sim.py:156-162): hit and distance (NoDist for None)
RayMiss == [hit |-> FALSE, distance |-> NoDist]
RayHit(distance) == [hit |-> TRUE, distance |-> distance]

\* the answers of the forward, the left and the right ray when nothing is hit
NoRays == [c |-> RayMiss, l |-> RayMiss, r |-> RayMiss]

\* ray avoidance that takes a side for blocked only when its hit has a distance
AvoidWithRaysSideNeedsDistance(pose, rays, coin) ==
    LET left_blocked == rays.l.hit /\ rays.l.distance # NoDist /\ rays.l.distance <= avoid_distance
        right_blocked == rays.r.hit /\ rays.r.distance # NoDist /\ rays.r.distance <= avoid_distance
    IN IF pose = NoPoint THEN "raise"
       ELSE IF ~rays.c.hit THEN "none"
       ELSE IF rays.c.distance = NoDist THEN "none"
       ELSE IF rays.c.distance > avoid_distance THEN "none"
       ELSE IF rays.c.distance <= brake_distance THEN "DECELERATE"
       ELSE IF left_blocked /\ ~right_blocked THEN "TURN_RIGHT"
       ELSE IF right_blocked /\ ~left_blocked THEN "TURN_LEFT"
       ELSE IF coin THEN "TURN_LEFT" ELSE "TURN_RIGHT"

\* _avoid_with_rays (npc.py:218-261), rays the answers of sim.raycast to the
\* forward, left and right ray: a DiscreteAction, "none" for None, "raise" when
\* the pose getter raises
AvoidWithRays(pose, rays, coin) ==
    LET left_blocked == rays.l.hit /\ (rays.l.distance = NoDist \/ rays.l.distance <= avoid_distance)
        right_blocked == rays.r.hit /\ (rays.r.distance = NoDist \/ rays.r.distance <= avoid_distance)
    IN IF pose = NoPoint THEN "raise"
       ELSE IF ~rays.c.hit THEN "none"
       ELSE IF rays.c.distance = NoDist THEN "none"
       ELSE IF rays.c.distance > avoid_distance THEN "none"
       ELSE IF rays.c.distance <= brake_distance THEN "DECELERATE"
       ELSE IF left_blocked /\ ~right_blocked THEN "TURN_RIGHT"
       ELSE IF right_blocked /\ ~left_blocked THEN "TURN_LEFT"
       ELSE IF coin THEN "TURN_LEFT" ELSE "TURN_RIGHT"

\* _wrap_pi (npc.py:304-309) on an angle of a quarter turns
RECURSIVE WrapPi(_)
WrapPi(a) == IF a > 2 THEN WrapPi(a - 4) ELSE IF a < -2 THEN WrapPi(a + 4) ELSE a

\* math.atan2(dy, dx) in quarter turns, for a vector along an axis
Atan2Axis(dx, dy) == IF dy > 0 THEN 1 ELSE IF dy < 0 THEN -1 ELSE IF dx < 0 THEN 2 ELSE 0

\* goal seeking that still accelerates at cruise speed
GoalSeekOverCruise(dx, dy, q, speed) ==
    LET f == Forward(q)
        ex == IF dx = 0 /\ dy = 0 THEN 1 ELSE dx
        cross == f[1] * dy - f[2] * ex
        dot == f[1] * ex + f[2] * dy
        aligned == dot > 0 /\ Abs(cross) * HeadingTanDen <= HeadingTanNum * dot
        positive == IF cross # 0 THEN cross > 0
                    ELSE WrapPi(Atan2Axis(ex, dy) - q) > 0
    IN IF ~aligned THEN (IF positive THEN "TURN_LEFT" ELSE "TURN_RIGHT")
       ELSE IF speed <= cruise_speed THEN "ACCELERATE" ELSE "DECELERATE"

\* goal seeking (npc.py:189-200).  With f the forward vector and d the vector to
\* the target, yaw_err is the angle from f to d: its sine has the sign of
\* cross(f, d), its cosine the sign of dot(f, d), and |yaw_err| <= threshold iff
\* dot > 0 and |cross| <= tan(threshold) * dot.  When d is opposite to f the
\* error is +pi or -pi as _wrap_pi leaves it.  atan2(0, 0) is 0.
GoalSeek(dx, dy, q, speed) ==
    LET f == Forward(q)
        ex == IF dx = 0 /\ dy = 0 THEN 1 ELSE dx
        cross == f[1] * dy - f[2] * ex
        dot == f[1] * ex + f[2] * dy
        aligned == dot > 0 /\ Abs(cross) * HeadingTanDen <= HeadingTanNum * dot
        positive == IF cross # 0 THEN cross > 0
                    ELSE WrapPi(Atan2Axis(ex, dy) - q) > 0
    IN IF ~aligned THEN (IF positive THEN "TURN_LEFT" ELSE "TURN_RIGHT")
       ELSE IF speed < cruise_speed THEN "ACCELERATE" ELSE "DECELERATE"

\* rng.random() < 0.5
CoinTurn(coin) == IF coin THEN "TURN_LEFT" ELSE "TURN_RIGHT"

\* a trigger that waits for one step more
StuckTriggeredLate(counter) == counter > StuckSteps

\* npc.py:164
StuckTriggered(counter) == counter >= StuckSteps

\* npc.py:153
GoalReached(g, d2) == g = NoGrid /\ Within(d2, goal_tolerance)

\* a replan that leaves the stuck counter as it is
StuckRecoveryWithCounterKept(st, path, pose, rnd, coin, picks, d2) ==
    IF path # NoPath
    THEN [st |-> [st EXCEPT !.waypoints_xy = CellsToWaypoints(st.nav_grid, SimplifyPathCells(path)),
                            !.waypoint_idx = 0],
          action |-> CoinTurn(coin), rule |-> "stuck_replan", picks |-> picks,
          coin |-> TRUE, dist |-> d2, compared |-> TRUE]
    ELSE [st |-> PickNewGoal(st, pose, rnd),
          action |-> CoinTurn(coin), rule |-> "stuck_new_goal", picks |-> picks + 1,
          coin |-> TRUE, dist |-> d2, compared |-> TRUE]

\* a replan that goes on from the old waypoint index
StuckRecoveryWithStaleIndex(st, path, pose, rnd, coin, picks, d2) ==
    IF path # NoPath
    THEN [st |-> [st EXCEPT !.waypoints_xy = CellsToWaypoints(st.nav_grid, SimplifyPathCells(path)),
                            !.stuck_counter = 0],
          action |-> CoinTurn(coin), rule |-> "stuck_replan", picks |-> picks,
          coin |-> TRUE, dist |-> d2, compared |-> TRUE]
    ELSE [st |-> PickNewGoal(st, pose, rnd),
          action |-> CoinTurn(coin), rule |-> "stuck_new_goal", picks |-> picks + 1,
          coin |-> TRUE, dist |-> d2, compared |-> TRUE]

\* stuck recovery once astar has returned path (npc.py:170-179)
StuckRecoveryWith(st, path, pose, rnd, coin, picks, d2) ==
    IF path # NoPath
    THEN [st |-> [st EXCEPT !.waypoints_xy = CellsToWaypoints(st.nav_grid, SimplifyPathCells(path)),
                            !.waypoint_idx = 0,
                            !.stuck_counter = 0],
          action |-> CoinTurn(coin), rule |-> "stuck_replan", picks |-> picks,
          coin |-> TRUE, dist |-> d2, compared |-> TRUE]
    ELSE [st |-> PickNewGoal(st, pose, rnd),
          action |-> CoinTurn(coin), rule |-> "stuck_new_goal", picks |-> picks + 1,
          coin |-> TRUE, dist |-> d2, compared |-> TRUE]

\* stuck recovery (npc.py:164-179): replan to the same goal on a grid, else a new goal
StuckRecovery(st, p, pose, rnd, coin, picks, d2) ==
    StuckRecoveryWith(st,
                      IF st.nav_grid # NoGrid /\ st.goal_xy # NoPoint
                      THEN Astar(st.nav_grid, WorldToCell(st.nav_grid, p),
                                 WorldToCell(st.nav_grid, st.goal_xy))
                      ELSE NoPath,
                      pose, rnd, coin, picks, d2)

\* the end of policy_step (npc.py:181-200): proximity avoidance, then goal seeking
AvoidOrSeek(st, p, pose, obs, q, speed, target, picks, d2, compared) ==
    LET avoid == IF obs.given THEN AvoidWithProximity(obs.list, pose, q) ELSE "none"
    IN IF avoid = "raise"
       THEN [st |-> st, action |-> "raise", rule |-> "raise", picks |-> picks,
             coin |-> FALSE, dist |-> d2, compared |-> compared]
       ELSE IF avoid # "none"
       THEN [st |-> st, action |-> avoid, rule |-> "avoid", picks |-> picks,
             coin |-> FALSE, dist |-> d2, compared |-> compared]
       ELSE [st |-> st, action |-> GoalSeek(target[1] - p[1], target[2] - p[2], q, speed),
             rule |-> "seek", picks |-> picks, coin |-> FALSE, dist |-> d2, compared |-> compared]

\* a policy that consults avoidance before stuck recovery
PolicyDecideAvoidFirst(s3, n3, way, p, pose, obs, q, speed, rnd, coin) ==
    LET target == IF way # NoPoint THEN way ELSE s3.goal_xy
        d2 == Dist2(p, target)
        compared == s3.prev_goal_dist # NoDist
        counter == IF compared /\ NoProgress(d2, s3.prev_goal_dist) THEN s3.stuck_counter + 1 ELSE 0
        s4 == [s3 EXCEPT !.stuck_counter = counter, !.prev_goal_dist = d2]
        avoid == IF obs.given THEN AvoidWithProximity(obs.list, pose, q) ELSE "none"
    IN IF GoalReached(s3.nav_grid, d2)
       THEN [st |-> PickNewGoal(s3, pose, rnd),
             action |-> CoinTurn(coin), rule |-> "goal_reached", picks |-> n3 + 1,
             coin |-> TRUE, dist |-> d2, compared |-> FALSE]
       ELSE IF StuckTriggered(counter) /\ avoid \in {"none", "raise"}
       THEN StuckRecovery(s4, p, pose, rnd, coin, n3, d2)
       ELSE AvoidOrSeek(s4, p, pose, obs, q, speed, target, n3, d2, compared)

\* policy_step from the goal-reached test on (npc.py:149-200): s3 the agent after
\* waypoint tracking, way the waypoint it tracks (NoPoint: the raw goal), rnd
\* the draws of the next pick_new_goal
PolicyDecide(s3, n3, way, p, pose, obs, q, speed, rnd, coin) ==
    LET target == IF way # NoPoint THEN way ELSE s3.goal_xy
        d2 == Dist2(p, target)
        compared == s3.prev_goal_dist # NoDist
        counter == IF compared /\ NoProgress(d2, s3.prev_goal_dist) THEN s3.stuck_counter + 1 ELSE 0
        s4 == [s3 EXCEPT !.stuck_counter = counter, !.prev_goal_dist = d2]
    IN IF GoalReached(s3.nav_grid, d2)
       THEN [st |-> PickNewGoal(s3, pose, rnd),
             action |-> CoinTurn(coin), rule |-> "goal_reached", picks |-> n3 + 1,
             coin |-> TRUE, dist |-> d2, compared |-> FALSE]
       ELSE IF StuckTriggered(counter)
       THEN StuckRecovery(s4, p, pose, rnd, coin, n3, d2)
       ELSE AvoidOrSeek(s4, p, pose, obs, q, speed, target, n3, d2, compared)

\* policy_step after the while loop of waypoint tracking has left the index at
\* idx (npc.py:142-147)
PolicyTracked(s2, idx, n1, p, pose, obs, q, speed, rnd1, rnd2, coin) ==
    LET tracking == s2.nav_grid # NoGrid /\ s2.waypoints_xy # <<>>
        completed == tracking /\ idx >= Len(s2.waypoints_xy)
        n3 == n1 + (IF completed THEN 1 ELSE 0)
    IN PolicyDecide(IF completed
                    THEN PickNewGoal([s2 EXCEPT !.waypoint_idx = idx], pose, IF n1 = 0 THEN rnd1 ELSE rnd2)
                    ELSE [s2 EXCEPT !.waypoint_idx = idx],
                    n3,
                    IF tracking /\ ~completed THEN s2.waypoints_xy[idx + 1] ELSE NoPoint,
                    p, pose, obs, q, speed, IF n3 = 0 THEN rnd1 ELSE rnd2, coin)

\* policy_step once it has a goal (npc.py:131-141)
PolicyWithGoal(s1, n1, pose, obs, q, speed, rnd1, rnd2, coin) ==
    PolicyTracked(AfterGetXY(s1, pose),
                  IF s1.nav_grid # NoGrid /\ s1.waypoints_xy # <<>>
                  THEN AdvanceWaypoints(s1.waypoints_xy, s1.waypoint_idx, GetXY(s1, pose))
                  ELSE s1.waypoint_idx,
                  n1, GetXY(s1, pose), pose, obs, q, speed, rnd1, rnd2, coin)

\* policy_step (npc.py:120-200).  rnd1 and rnd2 are the draws of the first and
\* the second call of pick_new_goal, coin the draw of rng.random() < 0.5.  The
\* result: the agent's fields, the action returned, the rule that returned,
\* the calls of pick_new_goal made, whether the coin was drawn, the squared
\* target distance, and whether stuck detection compared it with a previous one.
PolicyStep(st0, pose, obs, q, speed, rnd1, rnd2, coin) ==
    IF st0.goal_xy # NoPoint
    THEN PolicyWithGoal(st0, 0, pose, obs, q, speed, rnd1, rnd2, coin)
    ELSE PolicyWithGoal(PickNewGoal(st0, pose, rnd1), 1, pose, obs, q, speed, rnd1, rnd2, coin)

----------------------------------------------------------------------------
(* CarBlock control (car.py:107-131, 341-375)                              *)
(*                                                                         *)
(* Speeds and rates are in units of 0.001.  The yaw is in quarter turns    *)
(* and dt in units of the time in which turn_rate turns a quarter, so that *)
(* yaw_rate * dt is a whole number of quarter turns.                       *)

\* what a call gave: status "ok" with the value returned, "raise" when it raised,
\* "pending" while it has not returned, "none" when nothing was called
Result(status, value) == [status |-> status, value |-> value]

\* CarBlockConfig (car.py:26-32)
max_speed == 5000
speed_delta == 500
turn_rate == 1500
config_force == 30
config_torque == 10

ControlModes == {"kinematic", "force_torque"}

\* DiscreteAction(int(action)) (actions.py:13-16): "invalid" where it raises ValueError
DiscreteActionOf(i) ==
    CASE i = 0 -> "ACCELERATE"
      [] i = 1 -> "DECELERATE"
      [] i = 2 -> "TURN_LEFT"
      [] i = 3 -> "TURN_RIGHT"
      [] OTHER -> "invalid"

\* a target speed that is not clamped
SpeedAfterUnclamped(a, speed) ==
    IF a = "ACCELERATE" THEN speed + speed_delta
    ELSE IF a = "DECELERATE" THEN speed - speed_delta
    ELSE speed

\* the target speed after apply_action (car.py:112-116)
SpeedAfter(a, speed) ==
    IF a = "ACCELERATE" THEN Min(max_speed, speed + speed_delta)
    ELSE IF a = "DECELERATE" THEN Max(0, speed - speed_delta)
    ELSE speed

\* the target yaw-rate after apply_action (car.py:114-121)
YawRateAfter(a, rate) ==
    CASE a = "ACCELERATE" -> 0
      [] a = "DECELERATE" -> 0
      [] a = "TURN_LEFT" -> turn_rate
      [] a = "TURN_RIGHT" -> 0 - turn_rate
      [] OTHER -> rate

\* apply_action(action) (car.py:107-121); an int that is no DiscreteAction
\* raises before anything is assigned
ApplyAction(i) ==
    /\ call_op' = "apply_action"
    /\ call_args' = <<i>>
    /\ IF DiscreteActionOf(i) = "invalid"
       THEN /\ call_result' = Result("raise", <<>>)
            /\ UNCHANGED <<last_action, target_speed, target_yaw_rate>>
       ELSE /\ call_result' = Result("ok", <<>>)
            /\ last_action' = DiscreteActionOf(i)
            /\ target_speed' = SpeedAfter(DiscreteActionOf(i), target_speed)
            /\ target_yaw_rate' = YawRateAfter(DiscreteActionOf(i), target_yaw_rate)
    /\ UNCHANGED <<yaw, control_mode, sim_command>>
    /\ UNCHANGED <<goal_xy, prev_goal_dist, stuck_counter, nav_grid, waypoints_xy, waypoint_idx, last_xy>>
    /\ UNCHANGED <<loopVars, collisionVars, contacts_have_force, collisionHist, astarVars, npcHist>>

\* self._yaw += self._target_yaw_rate * float(dt) (car.py:343, 354)
YawAfter(q, rate, dt) == q + (rate * dt) \div turn_rate

\* _step_kinematic (car.py:341-349): the velocities handed to the simulator
KinematicCommand(q, speed, rate) ==
    [op |-> "set_linear_angular_velocity",
     linear |-> <<speed * Forward(q)[1], speed * Forward(q)[2], 0>>,
     angular |-> <<0, 0, rate>>]

\* a force that pushes forward on DECELERATE too
ForceTorqueCommandUnsigned(q, a) ==
    LET force_mag == IF a \in {"ACCELERATE", "DECELERATE"} THEN config_force ELSE 0
        tq == IF a = "TURN_LEFT" THEN config_torque
              ELSE IF a = "TURN_RIGHT" THEN 0 - config_torque ELSE 0
    IN [op |-> "apply_force_torque",
        force |-> <<force_mag * Forward(q)[1], force_mag * Forward(q)[2], 0>>,
        torque |-> <<0, 0, tq>>]

\* _step_force_torque (car.py:351-375): the force and the torque handed to the simulator
ForceTorqueCommand(q, a) ==
    LET force_mag == IF a = "ACCELERATE" THEN config_force
                     ELSE IF a = "DECELERATE" THEN 0 - config_force ELSE 0
        tq == IF a = "TURN_LEFT" THEN config_torque
              ELSE IF a = "TURN_RIGHT" THEN 0 - config_torque ELSE 0
    IN [op |-> "apply_force_torque",
        force |-> <<force_mag * Forward(q)[1], force_mag * Forward(q)[2], 0>>,
        torque |-> <<0, 0, tq>>]

\* a step_control that keeps the yaw estimate in kinematic mode only
StepControlYawKinematicOnly(dt) ==
    /\ call_op' = "step_control"
    /\ call_args' = <<dt>>
    /\ IF control_mode \in ControlModes
       THEN /\ Abs(YawAfter(yaw, target_yaw_rate, dt)) <= MaxYaw
            /\ call_result' = Result("ok", <<>>)
            /\ yaw' = IF control_mode = "kinematic" THEN YawAfter(yaw, target_yaw_rate, dt) ELSE yaw
            /\ sim_command' = IF control_mode = "kinematic"
                              THEN KinematicCommand(yaw', target_speed, target_yaw_rate)
                              ELSE ForceTorqueCommand(yaw', last_action)
       ELSE /\ call_result' = Result("raise", "Unknown control_mode")
            /\ UNCHANGED <<yaw, sim_command>>
    /\ UNCHANGED <<target_speed, target_yaw_rate, last_action, control_mode>>
    /\ UNCHANGED <<goal_xy, prev_goal_dist, stuck_counter, nav_grid, waypoints_xy, waypoint_idx, last_xy>>
    /\ UNCHANGED <<loopVars, collisionVars, contacts_have_force, collisionHist, astarVars, npcHist>>

\* a step_control that takes every mode but kinematic for force/torque
StepControlElseForceTorque(dt) ==
    /\ Abs(YawAfter(yaw, target_yaw_rate, dt)) <= MaxYaw
    /\ call_op' = "step_control"
    /\ call_args' = <<dt>>
    /\ call_result' = Result("ok", <<>>)
    /\ yaw' = YawAfter(yaw, target_yaw_rate, dt)
    /\ sim_command' = IF control_mode = "kinematic"
                      THEN KinematicCommand(yaw', target_speed, target_yaw_rate)
                      ELSE ForceTorqueCommand(yaw', last_action)
    /\ UNCHANGED <<target_speed, target_yaw_rate, last_action, control_mode>>
    /\ UNCHANGED <<goal_xy, prev_goal_dist, stuck_counter, nav_grid, waypoints_xy, waypoint_idx, last_xy>>
    /\ UNCHANGED <<loopVars, collisionVars, contacts_have_force, collisionHist, astarVars, npcHist>>

\* step_control(dt) (car.py:123-131): a mode that is neither of ControlModes
\* raises ValueError before anything is done
StepControl(dt) ==
    /\ call_op' = "step_control"
    /\ call_args' = <<dt>>
    /\ IF control_mode \in ControlModes
       THEN /\ Abs(YawAfter(yaw, target_yaw_rate, dt)) <= MaxYaw
            /\ call_result' = Result("ok", <<>>)
            /\ yaw' = YawAfter(yaw, target_yaw_rate, dt)
            /\ sim_command' = IF control_mode = "kinematic"
                              THEN KinematicCommand(yaw', target_speed, target_yaw_rate)
                              ELSE ForceTorqueCommand(yaw', last_action)
       ELSE /\ call_result' = Result("raise", "Unknown control_mode")
            /\ UNCHANGED <<yaw, sim_command>>
    /\ UNCHANGED <<target_speed, target_yaw_rate, last_action, control_mode>>
    /\ UNCHANGED <<goal_xy, prev_goal_dist, stuck_counter, nav_grid, waypoints_xy, waypoint_idx, last_xy>>
    /\ UNCHANGED <<loopVars, collisionVars, contacts_have_force, collisionHist, astarVars, npcHist>>

----------------------------------------------------------------------------
(* NavGrid.build (pathfinding.py:41-92), on whole-number coordinates *)

AABB(xmin, ymin, xmax, ymax) == [xmin |-> xmin, ymin |-> ymin, xmax |-> xmax, ymax |-> ymax]

\* AABB.inflated
Inflated(o, r) == AABB(o.xmin - r, o.ymin - r, o.xmax + r, o.ymax + r)

\* a test that lets rectangles touch without intersecting
AabbIntersectsOpen(ax0, ay0, ax1, ay1, b) ==
    IF ax1 <= b.xmin \/ ax0 >= b.xmax THEN FALSE
    ELSE IF ay1 <= b.ymin \/ ay0 >= b.ymax THEN FALSE
    ELSE TRUE

\* _aabb_intersects
AabbIntersects(ax0, ay0, ax1, ay1, b) ==
    IF ax1 < b.xmin \/ ax0 > b.xmax THEN FALSE
    ELSE IF ay1 < b.ymin \/ ay0 > b.ymax THEN FALSE
    ELSE TRUE

\* int(math.ceil(a / b)) for a > 0 and b > 0
CeilDiv(a, b) == (a + b - 1) \div b

\* NavGrid.build: the grid built, or "raise" for the ValueError
NavGridBuild(xy_min, xy_max, cell_size, obstacles, inflate) ==
    IF xy_max[1] <= xy_min[1] \/ xy_max[2] <= xy_min[2] THEN Result("raise", "Invalid bounds")
    ELSE IF cell_size <= 0 THEN Result("raise", "cell_size must be > 0")
    ELSE LET width == CeilDiv(xy_max[1] - xy_min[1], cell_size)
             height == CeilDiv(xy_max[2] - xy_min[2], cell_size)
             inflated == [i \in 1 .. Len(obstacles) |-> Inflated(obstacles[i], inflate)]
             blockedAt(ix, iy) ==
                 LET cx0 == xy_min[1] + ix * cell_size
                     cy0 == xy_min[2] + iy * cell_size
                 IN \E i \in 1 .. Len(inflated) :
                        AabbIntersects(cx0, cy0, cx0 + cell_size, cy0 + cell_size, inflated[i])
         IN Result("ok", [width |-> width, height |-> height,
                          blocked |-> [iy \in 1 .. height |-> [ix \in 1 .. width |-> blockedAt(ix - 1, iy - 1)]],
                          xy_min |-> xy_min, cell_size |-> cell_size])

----------------------------------------------------------------------------
(* Bounded inputs of the planner *)

Cells(w, h) == {<<x, y>> : x \in 0 .. (w - 1), y \in 0 .. (h - 1)}

\* the grid with the given set of blocked cells
GridOf(w, h, B) ==
    [width |-> w, height |-> h,
     blocked |-> [iy \in 1 .. h |-> [ix \in 1 .. w |-> <<ix - 1, iy - 1>> \in B]]]

\* every grid of GridW x GridH cells with at most MaxBlocked blocked cells
Grids == {GridOf(GridW, GridH, B) : B \in {X \in SUBSET Cells(GridW, GridH) : Cardinality(X) <= MaxBlocked}}

\* start and goal cells: the cells of the grid and one cell beyond each side
EndpointCells ==
    Cells(GridW, GridH) \cup {<<-1, 0>>, <<GridW, GridH - 1>>, <<0, -1>>, <<GridW - 1, GridH>>}

AstarIdle ==
    /\ astar_pc = "idle"
    /\ astar_start = <<0, 0>>
    /\ astar_goal = <<0, 0>>
    /\ open_heap = {}
    /\ came_from = <<>>
    /\ g_score = <<>>
    /\ astar_result = NoPath

\* NPCBlock.__init__ (npc.py:50-76) with the given nav_grid at <<250, 250>>,
\* with the yaw and target speed the agent has when the policy starts
NpcConstructed(g, q, v) ==
    /\ goal_xy = NoPoint
    /\ prev_goal_dist = NoDist
    /\ stuck_counter = 0
    /\ nav_grid = g
    /\ waypoints_xy = <<>>
    /\ waypoint_idx = 0
    /\ last_xy = <<250, 250>>
    /\ yaw = q
    /\ target_speed = v
    /\ policy_action = "none"
    /\ policy_rule = "none"
    /\ policy_picks = 0
    /\ hUnplannedNear = FALSE
    /\ hStillCalls = 0
    /\ hReachedCalls = FALSE
    /\ hStillMeasured = 0
    /\ hReachedMeasured = FALSE
    /\ hRays = NoRays
    /\ target_yaw_rate = 0
    /\ last_action = "none"
    /\ sim_command = <<>>

NpcIdle == NpcConstructed(NoGrid, 0, 0) /\ control_mode = "kinematic"

\* main() of the demo is not running
LoopIdle ==
    /\ loop_args = <<>>
    /\ loop_pc = "idle"
    /\ loop_step = 0
    /\ tick_calls = <<>>

\* no function has been called
CallIdle ==
    /\ call_op = "idle"
    /\ call_args = <<>>
    /\ call_result = Result("none", <<>>)

----------------------------------------------------------------------------
(* The collision tracker on its own *)

\* CarBlock.__init__ (car.py:96-105)
InitCollisionTracker ==
    /\ collision_events_this_step = <<>>
    /\ collision_tracked_ranges = <<>>
    /\ collision_ignore_ranges = <<>>
    /\ collision_tracked_by_id = {}
    /\ active_collision_entity_ids = {}
    /\ active_collision_max_force = EmptyForceMap
    /\ hContact = [e \in EntityIds |-> FALSE]
    /\ hLastPhase = [e \in EntityIds |-> "none"]
    /\ hBeginForce = EmptyForceMap
    /\ hLastMeasured = EmptyForceMap
    /\ hLastPoll = EmptyForceMap
    /\ hRemeasured = [e \in EntityIds |-> FALSE]
    /\ hPolled = FALSE

InitCollision ==
    /\ InitCollisionTracker
    /\ LoopIdle
    /\ contacts_have_force \in BOOLEAN
    /\ grid = GridOf(1, 1, {})
    /\ AstarIdle
    /\ NpcIdle
    /\ CallIdle

\* lists of distinct entities, in the order of their geometry ranges (the
\* reverse of the order of their ids)
EntityLists == {s \in SeqsUpTo(EntityIds, NumEntities) : \A i, j \in DOMAIN s : i < j => s[i] > s[j]}
\* the ignore list holds at most the ground, the last entity of the scene
IgnoreLists == {<<>>, <<NumEntities>>}

ContactLists == SeqsUpTo(Contacts, MaxContacts)

NextCollision ==
    \/ \E tracked \in EntityLists, ignored \in IgnoreLists :
          SetCollisionTargets(tracked, ignored) /\ UNCHANGED <<callVars, loopVars>>
    \/ \E contacts \in ContactLists, min_force \in Thresholds :
          PollCollisionEvents(contacts, min_force)
    \/ \E min_force \in Thresholds : PollWithoutTensors(min_force)
    \/ PollEarlyReturn

SpecCollision == InitCollision /\ [][NextCollision]_vars

----------------------------------------------------------------------------
(* One poll of the collision tracker under observation: the first or the   *)
(* second poll after set_collision_targets, its arguments and its events   *)
(* kept                                                                     *)

TargetsSet(tracked, ignored) ==
    call_op = "idle" /\ SetCollisionTargets(tracked, ignored) /\ UNCHANGED <<callVars, loopVars>>

FirstPoll(contacts, min_force) ==
    /\ call_op = "idle"
    /\ ~hPolled
    /\ PollCollisionEvents(contacts, min_force)

ObservedPoll(contacts, min_force) ==
    /\ call_op = "idle"
    /\ PollStep(contacts, min_force)
    /\ call_op' = "poll_collision_events"
    /\ call_args' = [contacts |-> contacts, min_force |-> min_force]
    /\ call_result' = Result("ok", collision_events_this_step')
    /\ UNCHANGED loopVars

\* what the backend lacks at a poll that gets no contact introspection: the
\* entity has no get_contacts (car.py:207), no geometry range (car.py:210-213),
\* get_contacts gives no mapping (car.py:216) or no geom_a / geom_b
\* (car.py:219-222), torch cannot be imported or geom_a is no tensor
\* (car.py:230-241)
Lacks == {"get_contacts", "geom_range", "mapping", "geom_arrays", "tensors"}

\* the observed poll when the backend lacks `lack`
BlindPoll(lack, min_force) ==
    /\ call_op = "idle"
    /\ collision_tracked_ranges # <<>>
    /\ IF lack = "tensors" THEN PollWithoutTensorsStep(min_force) ELSE PollEarlyReturnStep
    /\ call_op' = "poll_collision_events without introspection"
    /\ call_args' = [lack |-> lack, min_force |-> min_force]
    /\ call_result' = Result("ok", collision_events_this_step')
    /\ UNCHANGED loopVars

NextPoll ==
    \/ \E tracked \in EntityLists, ignored \in IgnoreLists : TargetsSet(tracked, ignored)
    \/ \E contacts \in ContactLists, min_force \in Thresholds : FirstPoll(contacts, min_force)
    \/ \E contacts \in ContactLists, min_force \in Thresholds : ObservedPoll(contacts, min_force)
    \/ \E lack \in Lacks, min_force \in Thresholds : BlindPoll(lack, min_force)

SpecPoll == InitCollision /\ [][NextPoll]_vars

----------------------------------------------------------------------------
(* The planner on its own *)

InitAstar ==
    /\ grid \in Grids
    /\ AstarIdle
    /\ InitCollisionTracker
    /\ LoopIdle
    /\ contacts_have_force = TRUE
    /\ NpcIdle
    /\ CallIdle

NextAstar ==
    \/ \E start, goal \in EndpointCells : AstarCall(start, goal)
    \/ AstarLoop

SpecAstar == InitAstar /\ [][NextAstar]_vars

\* the planner whose while loop keeps running: astar is straight-line code,
\* so a pass of the loop that can be made is made.  The grids block cells next
\* to the corner <<0, 0>>, which walls it in when both are blocked; the
\* searches start in that corner, in the middle, in the far corner and out of
\* bounds
WalledCells == {<<1, 0>>, <<0, 1>>, <<1, 1>>}
WalledGrids == {GridOf(GridW, GridH, B) : B \in {X \in SUBSET WalledCells : Cardinality(X) <= MaxBlocked}}
FairStarts == {<<0, 0>>, <<1, 1>>, <<GridW - 1, GridH - 1>>, <<-1, 0>>}

InitAstarFair == InitAstar /\ grid \in WalledGrids

NextAstarFair ==
    \/ \E start \in FairStarts, goal \in EndpointCells : AstarCall(start, goal)
    \/ AstarLoop

SpecAstarFair == InitAstarFair /\ [][NextAstarFair]_vars /\ WF_vars(AstarLoop)

----------------------------------------------------------------------------
(* The NPC on its own *)

\* the agent's NavGrid: 3 x 2 cells of nav_cell_size from the origin, the cell
\* <<1, 0>> blocked
NpcGrid == GridOf(3, 2, {<<1, 0>>}) @@ [xy_min |-> <<0, 0>>, cell_size |-> nav_cell_size]

NavGridChoices == {NoGrid, NpcGrid}

\* where the agent is spawned, and the poses the simulator reports (NoPoint:
\* the pose getter raises)
SpawnXY == <<250, 250>>
Poses == {NoPoint, <<250, 250>>, <<250, 280>>, <<250, 750>>, <<1250, 750>>, <<1250, 250>>}

\* the points rng.uniform draws inside the roam bounds
GoalPoints == {<<750, 250>>, <<1250, 250>>}

\* the draws of one pick_new_goal: one point per sample and the fallback point
Draws == [samples : [1 .. Max(1, MaxGoalSamples) -> GoalPoints], fallback : GoalPoints]
Draw0 == [samples |-> [i \in 1 .. Max(1, MaxGoalSamples) |-> SpawnXY], fallback |-> SpawnXY]

\* without a grid only the first point is drawn
DrawsFor(g) == IF g = NoGrid THEN {[Draw0 EXCEPT !.samples[1] = pt] : pt \in GoalPoints} ELSE Draws

\* the obstacles argument: None, or a list of entities
Obstacle(kind, pos) == [kind |-> kind, pos |-> pos]
ObstacleInputs ==
    {[given |-> FALSE, list |-> <<>>],
     [given |-> TRUE, list |-> <<Obstacle("self", SpawnXY), Obstacle("entity", <<700, 250>>)>>],
     [given |-> TRUE, list |-> <<Obstacle("unposed", NoPoint), Obstacle("entity", <<1050, 650>>)>>]}

\* the yaw and target speed the agent keeps: <<yaw, target_speed>>
ControlChoices == {<<0, 0>>, <<1, cruise_speed>>}

StuckRules == {"stuck_replan", "stuck_new_goal"}

InitNPC ==
    /\ \E g \in NavGridChoices, c \in ControlChoices : NpcConstructed(g, c[1], c[2])
    /\ control_mode = "kinematic"
    /\ InitCollisionTracker
    /\ LoopIdle
    /\ contacts_have_force = TRUE
    /\ grid = GridOf(1, 1, {})
    /\ AstarIdle
    /\ CallIdle

\* what the last policy_step did, and the runs of calls without progress
RecordPolicyStep(res, pose) ==
    LET early == res.rule = "goal_reached" \/ (res.picks > 0 /\ res.rule # "stuck_new_goal")
        decreased == res.compared /\ ~NoProgress(res.dist, prev_goal_dist)
        calls == IF early \/ decreased THEN 0 ELSE hStillCalls + 1
        measured == IF ~early /\ res.compared /\ ~decreased THEN hStillMeasured + 1 ELSE 0
    IN /\ policy_action' = res.action
       /\ policy_rule' = res.rule
       /\ policy_picks' = res.picks
       /\ hUnplannedNear' = (/\ goal_xy # NoPoint
                             /\ waypoints_xy = <<>>
                             /\ Within(Dist2(GetXY(NpcState, pose), goal_xy), goal_tolerance))
       /\ hReachedCalls' = (calls = StuckSteps)
       /\ hStillCalls' = (IF calls = StuckSteps THEN 0 ELSE calls)
       /\ hReachedMeasured' = (measured = StuckSteps)
       /\ hStillMeasured' = (IF measured >= StuckSteps THEN 0 ELSE measured)

\* policy_step(obstacles) on a tick at which sim.raycast would answer rays
PolicyStepEffect(pose, obs, rays) ==
    /\ \E rnd1 \in (IF PolicyStep(NpcState, pose, obs, yaw, target_speed, Draw0, Draw0, TRUE).picks >= 1
                    THEN DrawsFor(nav_grid) ELSE {Draw0}) :
       \E rnd2 \in (IF PolicyStep(NpcState, pose, obs, yaw, target_speed, rnd1, Draw0, TRUE).picks >= 2
                    THEN DrawsFor(nav_grid) ELSE {Draw0}) :
       \E coin \in (IF PolicyStep(NpcState, pose, obs, yaw, target_speed, rnd1, rnd2, TRUE).coin
                    THEN BOOLEAN ELSE {TRUE}) :
       \E res \in {PolicyStep(NpcState, pose, obs, yaw, target_speed, rnd1, rnd2, coin)} :
          /\ SetNpcState(res.st)
          /\ RecordPolicyStep(res, pose)
    /\ hRays' = rays
    /\ UNCHANGED <<yaw, target_speed>>
    /\ UNCHANGED <<loopVars, collisionVars, contacts_have_force, collisionHist, astarVars, carVars>>

\* one call of policy_step(obstacles) on such a tick
PolicyStepSensed(pose, obs, rays) == PolicyStepEffect(pose, obs, rays) /\ UNCHANGED callVars

\* one call of policy_step(obstacles) with nothing in reach of the rays
PolicyStepCall(pose, obs) == PolicyStepSensed(pose, obs, NoRays)

\* one call of pick_new_goal() from outside policy_step
PickNewGoalEffect(pose, rnd) ==
    /\ SetNpcState(PickNewGoal(NpcState, pose, rnd))
    /\ hStillCalls' = 0
    /\ hStillMeasured' = 0
    /\ UNCHANGED <<policy_action, policy_rule, policy_picks, hUnplannedNear, hReachedCalls,
                   hReachedMeasured, hRays>>
    /\ UNCHANGED <<yaw, target_speed>>
    /\ UNCHANGED <<loopVars, collisionVars, contacts_have_force, collisionHist, astarVars, carVars>>

PickNewGoalCall(pose, rnd) == PickNewGoalEffect(pose, rnd) /\ UNCHANGED callVars

\* set_nav_grid(nav_grid) (npc.py:83-86)
SetNavGridEffect(g) ==
    /\ nav_grid' = g
    /\ waypoints_xy' = <<>>
    /\ waypoint_idx' = 0
    /\ UNCHANGED <<goal_xy, prev_goal_dist, stuck_counter, last_xy, yaw, target_speed>>
    /\ UNCHANGED npcHist
    /\ UNCHANGED <<loopVars, collisionVars, contacts_have_force, collisionHist, astarVars, carVars>>

SetNavGrid(g) == SetNavGridEffect(g) /\ UNCHANGED callVars

NextNPC ==
    \/ \E pose \in Poses, obs \in ObstacleInputs : PolicyStepCall(pose, obs)
    \/ \E pose \in (IF nav_grid = NoGrid THEN {NoPoint} ELSE Poses), rnd \in DrawsFor(nav_grid) :
          PickNewGoalCall(pose, rnd)
    \/ \E g \in NavGridChoices : SetNavGrid(g)

SpecNPC == InitNPC /\ [][NextNPC]_vars

\* the NPC among things the rays can hit: nothing, or something ahead within
\* the brake distance; only policy_step calls pick_new_goal, as in the package
RayInputs == {NoRays, [NoRays EXCEPT !.c = RayHit(400)]}

NextNPCRays ==
    \/ \E pose \in Poses, obs \in ObstacleInputs, rays \in RayInputs : PolicyStepSensed(pose, obs, rays)
    \/ \E g \in NavGridChoices : SetNavGrid(g)

SpecNPCRays == InitNPC /\ [][NextNPCRays]_vars

----------------------------------------------------------------------------
(* The control of one CarBlock on its own *)

InitControl ==
    /\ NpcConstructed(NoGrid, 0, 0)
    /\ control_mode \in ControlModes
    /\ InitCollisionTracker
    /\ LoopIdle
    /\ contacts_have_force = TRUE
    /\ grid = GridOf(1, 1, {})
    /\ AstarIdle
    /\ CallIdle

NextControl ==
    \/ \E i \in 0 .. 4 : ApplyAction(i)
    \/ \E dt \in {1} : StepControl(dt)

SpecControl == InitControl /\ [][NextControl]_vars

\* config.control_mode is not checked by CarBlockConfig nor by __init__
\* (car.py:25-35, 69-94): any value can be configured
ConfiguredModes == ControlModes \cup {"cruise"}

InitAnyMode ==
    /\ NpcConstructed(NoGrid, 0, 0)
    /\ control_mode \in ConfiguredModes
    /\ InitCollisionTracker
    /\ LoopIdle
    /\ contacts_have_force = TRUE
    /\ grid = GridOf(1, 1, {})
    /\ AstarIdle
    /\ CallIdle

SpecAnyMode == InitAnyMode /\ [][NextControl]_vars

----------------------------------------------------------------------------
(* Calls of the functions that keep no state: the inputs are drawn at the  *)
(* start and the call gives its result                                     *)

\* a call of op with one of the inputs, not yet returned
CallOf(op, inputs) ==
    /\ NpcIdle
    /\ InitCollisionTracker
    /\ LoopIdle
    /\ contacts_have_force = TRUE
    /\ grid = GridOf(1, 1, {})
    /\ AstarIdle
    /\ call_op = op
    /\ call_args \in inputs
    /\ call_result = Result("pending", <<>>)

\* the call of op returns r
Returns(op, r) ==
    /\ call_op = op
    /\ call_result.status = "pending"
    /\ call_result' = r
    /\ UNCHANGED <<call_op, call_args>>
    /\ UNCHANGED <<loopVars, collisionVars, contacts_have_force, collisionHist, astarVars, npcVars, npcHist, carVars>>

\* the spans of an obstacle along one axis, in units of 0.2: around the origin,
\* up to a cell edge, on a cell edge, beyond the bounds
ObstacleSpans == {<<-2, 2>>, <<0, 5>>, <<5, 5>>, <<11, 12>>}
ObstacleBoxes == {AABB(sx[1], sy[1], sx[2], sy[2]) : sx \in ObstacleSpans, sy \in ObstacleSpans}
ObstacleLists == UNION {[1 .. n -> ObstacleBoxes] : n \in 0 .. MaxObstacles}

\* the bounds of the grid: <<xy_min, xy_max>>; the last has no extent in x
BuildBounds ==
    {<<<<-10, -10>>, <<10, 10>>>>, <<<<0, 0>>, <<10, 5>>>>, <<<<0, 0>>, <<7, 5>>>>, <<<<0, 0>>, <<0, 5>>>>}

BuildInputs ==
    [bounds : BuildBounds, cell_size : {5, 0}, obstacles : ObstacleLists, inflate : {0, 1}]

InitBuild == CallOf("NavGrid.build", BuildInputs)

NavGridBuildCall ==
    Returns("NavGrid.build",
            NavGridBuild(call_args.bounds[1], call_args.bounds[2], call_args.cell_size,
                         call_args.obstacles, call_args.inflate))

SpecBuild == InitBuild /\ [][NavGridBuildCall]_vars

\* the cells of the lists handed to simplify_path_cells
PathCells == Cells(3, 2)

\* any list of cells, and every path astar returns on the grids of the planner
\* (pick_new_goal hands these to simplify_path_cells, npc.py:100-105)
AnyPathInputs == {[from |-> "any", grid |-> NoGrid, path |-> p] : p \in SeqsUpTo(PathCells, MaxPathLen)}
AstarPathInputs(grids) ==
    {r \in {[from |-> "astar", grid |-> g, path |-> Astar(g, e[1], e[2])] :
                g \in grids, e \in EndpointCells \X EndpointCells} : r.path # NoPath}

InitSimplify == CallOf("simplify_path_cells", AnyPathInputs \cup AstarPathInputs(Grids))

SimplifyPathCellsCall ==
    Returns("simplify_path_cells", Result("ok", SimplifyPathCells(call_args.path)))

SpecSimplify == InitSimplify /\ [][SimplifyPathCellsCall]_vars

\* the obstacles handed to _avoid_with_proximity, the agent at the origin: in
\* the brake radius, on it, in the avoidance radius on either side at one
\* distance, nearer, straight on, on the avoidance radius, beyond it, the agent
\* itself, an entity without a pose and an entity where the agent is
NearbyObstacles ==
    {Obstacle("entity", <<500, 0>>), Obstacle("entity", <<0, 600>>),
     Obstacle("entity", <<700, 300>>), Obstacle("entity", <<700, -300>>),
     Obstacle("entity", <<-650, 100>>), Obstacle("entity", <<800, 0>>),
     Obstacle("entity", <<800, 600>>), Obstacle("entity", <<200, -1500>>),
     Obstacle("self", <<0, 0>>), Obstacle("unposed", NoPoint), Obstacle("entity", <<0, 0>>)}

AvoidInputs ==
    [pose : {NoPoint, <<0, 0>>}, yaw : 0 .. 3, obstacles : SeqsUpTo(NearbyObstacles, MaxNearby)]

InitAvoid == CallOf("_avoid_with_proximity", AvoidInputs)

AvoidWithProximityCall ==
    Returns("_avoid_with_proximity",
            LET a == AvoidWithProximity(call_args.obstacles, call_args.pose, call_args.yaw)
            IN IF a = "raise" THEN Result("raise", <<>>) ELSE Result("ok", a))

SpecAvoid == InitAvoid /\ [][AvoidWithProximityCall]_vars

\* the answers of sim.raycast to one ray: no hit, a hit without a distance, a
\* hit in the brake distance, on it, in the avoid distance, on it, beyond it
RayAnswers ==
    {RayMiss, RayHit(NoDist), RayHit(400), RayHit(brake_distance), RayHit(800),
     RayHit(avoid_distance), RayHit(avoid_distance + 1)}

RaysInputs ==
    [pose : {NoPoint, <<0, 0>>}, coin : BOOLEAN, rays : [c : RayAnswers, l : RayAnswers, r : RayAnswers]]

InitRays == CallOf("_avoid_with_rays", RaysInputs)

AvoidWithRaysCall ==
    Returns("_avoid_with_rays",
            LET a == AvoidWithRays(call_args.pose, call_args.rays, call_args.coin)
            IN IF a = "raise" THEN Result("raise", <<>>) ELSE Result("ok", a))

SpecRays == InitRays /\ [][AvoidWithRaysCall]_vars

----------------------------------------------------------------------------
(* pick_new_goal on its own, called on a grid-bound agent *)

\* the grid of the scenario, and one whose blocked column cuts it in two
PickGrids == {NpcGrid, GridOf(3, 2, {<<1, 0>>, <<1, 1>>}) @@ [xy_min |-> <<0, 0>>, cell_size |-> nav_cell_size]}

\* the fields of an agent just constructed, and of one under way along a path
\* with a distance recorded and one call without progress counted
AgentFresh(g) ==
    [goal_xy |-> NoPoint, prev_goal_dist |-> NoDist, stuck_counter |-> 0, nav_grid |-> g,
     waypoints_xy |-> <<>>, waypoint_idx |-> 0, last_xy |-> SpawnXY]
AgentUnderWay(g) ==
    [goal_xy |-> <<1250, 250>>, prev_goal_dist |-> Dist2(SpawnXY, <<250, 750>>), stuck_counter |-> 1,
     nav_grid |-> g,
     waypoints_xy |-> CellsToWaypoints(g, <<<<0, 0>>, <<0, 1>>, <<2, 1>>, <<2, 0>>>>),
     waypoint_idx |-> 1, last_xy |-> SpawnXY]

\* the poses at a call of pick_new_goal: those of the scenario and one inside
\* the blocked cell
PickPoses == Poses \cup {<<750, 250>>}

PickInputs == [pose : PickPoses, rnd : Draws]

InitPick ==
    /\ \E g \in PickGrids : \E st \in {AgentFresh(g), AgentUnderWay(g)} :
           /\ goal_xy = st.goal_xy
           /\ prev_goal_dist = st.prev_goal_dist
           /\ stuck_counter = st.stuck_counter
           /\ nav_grid = st.nav_grid
           /\ waypoints_xy = st.waypoints_xy
           /\ waypoint_idx = st.waypoint_idx
           /\ last_xy = st.last_xy
    /\ yaw = 0
    /\ target_speed = 0
    /\ policy_action = "none"
    /\ policy_rule = "none"
    /\ policy_picks = 0
    /\ hUnplannedNear = FALSE
    /\ hStillCalls = 0
    /\ hReachedCalls = FALSE
    /\ hStillMeasured = 0
    /\ hReachedMeasured = FALSE
    /\ hRays = NoRays
    /\ target_yaw_rate = 0
    /\ last_action = "none"
    /\ sim_command = <<>>
    /\ control_mode = "kinematic"
    /\ InitCollisionTracker
    /\ LoopIdle
    /\ contacts_have_force = TRUE
    /\ grid = GridOf(1, 1, {})
    /\ AstarIdle
    /\ call_op = "pick_new_goal"
    /\ call_args \in PickInputs
    /\ call_result = Result("pending", <<>>)

\* pick_new_goal() (npc.py:88-118), which returns the goal
PickNewGoalReturns ==
    /\ call_op = "pick_new_goal"
    /\ call_result.status = "pending"
    /\ SetNpcState(PickNewGoal(NpcState, call_args.pose, call_args.rnd))
    /\ call_result' = Result("ok", goal_xy')
    /\ UNCHANGED <<call_op, call_args, yaw, target_speed>>
    /\ UNCHANGED <<loopVars, collisionVars, contacts_have_force, collisionHist, astarVars, npcHist, carVars>>

SpecPick == InitPick /\ [][PickNewGoalReturns]_vars

----------------------------------------------------------------------------
(* NavGrid.world_to_cell on its own, on the grids NavGrid.build makes of    *)
(* bounds without obstacles                                                 *)

\* bounds that are and that are not a whole number of cells wide
CellBounds == {<<<<-10, -10>>, <<10, 10>>>>, <<<<0, 0>>, <<10, 5>>>>, <<<<0, 0>>, <<7, 4>>>>}
CellSizes == {5, 3}

\* the points up to one cell and a bit beyond the bounds
PointsAround(b, cell_size) ==
    {<<x, y>> : x \in (b[1][1] - cell_size - 1) .. (b[2][1] + cell_size + 1),
                y \in (b[1][2] - cell_size - 1) .. (b[2][2] + cell_size + 1)}

WorldToCellInputs ==
    UNION {[bounds : {b}, cell_size : {cs}, p : PointsAround(b, cs)] : b \in CellBounds, cs \in CellSizes}

InitCell == CallOf("NavGrid.world_to_cell", WorldToCellInputs)

WorldToCellCall ==
    Returns("NavGrid.world_to_cell",
            Result("ok", WorldToCell(NavGridBuild(call_args.bounds[1], call_args.bounds[2],
                                                  call_args.cell_size, <<>>, 0).value,
                                     call_args.p)))

SpecCell == InitCell /\ [][WorldToCellCall]_vars

----------------------------------------------------------------------------
(* The NPC under policy_step calls alone, the obstacles of each call kept   *)

ObservedPolicyStep(pose, obs) ==
    /\ PolicyStepEffect(pose, obs, NoRays)
    /\ call_op' = "policy_step"
    /\ call_args' = obs
    /\ call_result' = Result(IF policy_action' = "raise" THEN "raise" ELSE "ok", policy_action')

NextStuck == \E pose \in Poses, obs \in ObstacleInputs : ObservedPolicyStep(pose, obs)

SpecStuck == InitNPC /\ [][NextStuck]_vars

(* The NPC under calls of policy_step, pick_new_goal and set_nav_grid, the *)
(* call of each step kept                                                  *)
ObservedPickNewGoal(pose, rnd) ==
    /\ PickNewGoalEffect(pose, rnd)
    /\ call_op' = "pick_new_goal"
    /\ call_args' = <<>>
    /\ call_result' = Result("ok", goal_xy')

ObservedSetNavGrid(g) ==
    /\ SetNavGridEffect(g)
    /\ call_op' = "set_nav_grid"
    /\ call_args' = <<>>
    /\ call_result' = Result("ok", <<>>)

NextWaypoints ==
    \/ \E pose \in Poses, obs \in ObstacleInputs : ObservedPolicyStep(pose, obs)
    \/ \E pose \in (IF nav_grid = NoGrid THEN {NoPoint} ELSE Poses), rnd \in DrawsFor(nav_grid) :
          ObservedPickNewGoal(pose, rnd)
    \/ \E g \in NavGridChoices : ObservedSetNavGrid(g)

SpecWaypoints == InitNPC /\ [][NextWaypoints]_vars

----------------------------------------------------------------------------
(* Goal seeking on its own: the last rule of policy_step (npc.py:189-200)   *)
(* for a vector d to the target, a yaw of q quarter turns and a target      *)
(* speed                                                                    *)

\* vectors along the axes and the diagonals, and on both sides of the heading
\* threshold
SeekVectors ==
    {<<0, 0>>, <<1000, 0>>, <<1000, 1000>>, <<0, 1000>>, <<-1000, 1000>>, <<-1000, 0>>,
     <<-1000, -1000>>, <<0, -1000>>, <<1000, -1000>>,
     <<1000, 365>>, <<1000, 366>>, <<1000, -365>>, <<1000, -366>>}
SeekSpeeds == {0, cruise_speed - 1, cruise_speed, cruise_speed + 1}
SeekInputs == [d : SeekVectors, q : (0 - 2 * MaxYaw) .. (2 * MaxYaw), speed : SeekSpeeds]

InitSeek == CallOf("goal seeking", SeekInputs)

GoalSeekCall ==
    Returns("goal seeking",
            Result("ok", GoalSeek(call_args.d[1], call_args.d[2], call_args.q, call_args.speed)))

SpecSeek == InitSeek /\ [][GoalSeekCall]_vars

----------------------------------------------------------------------------
(* One agent under any sequence of calls of its public methods: an NPCBlock *)
(* without a nav grid, every call named in call_op                          *)

AgentPolicyStep(pose, obs) ==
    /\ PolicyStepEffect(pose, obs, NoRays)
    /\ call_op' = "policy_step"
    /\ call_args' = <<>>
    /\ call_result' = Result(IF policy_action' = "raise" THEN "raise" ELSE "ok", policy_action')

AgentSetTargets(tracked) ==
    /\ SetCollisionTargets(tracked, <<>>)
    /\ call_op' = "set_collision_targets"
    /\ call_args' = <<>>
    /\ call_result' = Result("ok", <<>>)
    /\ UNCHANGED loopVars

AgentPoll(contacts, min_force) ==
    /\ IF collision_tracked_ranges = <<>> THEN PollEarlyReturnStep ELSE PollStep(contacts, min_force)
    /\ call_op' = "poll_collision_events"
    /\ call_args' = <<>>
    /\ call_result' = Result("ok", <<>>)
    /\ UNCHANGED loopVars

\* the calls the agent is given: turns, steps of one or two time units, one
\* pose and no obstacle list, contacts with entity 1
AgentActions == {2, 3}
AgentDts == {1, 2}
AgentContacts == {<<>>, <<[a |-> 0, b |-> GeomStart(1), f |-> 1]>>}

NextAgent ==
    \/ \E i \in AgentActions : ApplyAction(i)
    \/ \E dt \in AgentDts : StepControl(dt)
    \/ AgentPolicyStep(SpawnXY, [given |-> FALSE, list |-> <<>>])
    \/ AgentSetTargets(<<1>>)
    \/ \E contacts \in AgentContacts : AgentPoll(contacts, 0)

SpecAgent == InitControl /\ [][NextAgent]_vars

----------------------------------------------------------------------------
(* The tick loop of the demo (examples/genesis_demo.py:246-452).  The car   *)
(* is agent 0 and the NPCs are the agents 1 .. npcs.  The state of the car  *)
(* is the CarBlock state above; of an NPC the loop keeps only the calls     *)
(* made on it.  Timing, rendering and printing are left out.                *)

BenchModes == {"full", "python_only", "physics_only"}

\* bench_mode = args.bench_mode if args.bench else "full" (genesis_demo.py:117)
BenchModeOf(args) == IF args.bench THEN args.bench_mode ELSE "full"

\* the scripted action of the car at `step` (genesis_demo.py:336-342)
ScriptedAction(step) ==
    IF step % 240 < 120 THEN "ACCELERATE"
    ELSE IF step % 240 < 180 THEN "TURN_RIGHT"
    ELSE "DECELERATE"

\* the parameters of NPCBlock.policy_step besides self (npc.py:120)
PolicyStepParams == {"obstacles"}
\* the keywords main passes to it (genesis_demo.py:361)
PolicyStepKeywords == {"obstacles", "positions_by_id"}

\* a call on agent `agent` (Simulator for the simulator), and how it ended
Simulator == 0 - 1
CallOn(op, agent, status) == [op |-> op, agent |-> agent, status |-> status]

\* npcs, the list main builds (genesis_demo.py:253-278)
NpcList(n) == [i \in 1 .. n |-> i]

\* for npc in npcs: a = npc.policy_step(...); npc.apply_action(a)
\* (genesis_demo.py:360-362) over the list `npcs`, policy_step having the
\* parameters `params`: the calls made, up to the call that raises TypeError
RECURSIVE NpcPolicyCalls(_, _)
NpcPolicyCalls(npcs, params) ==
    IF npcs = <<>> THEN <<>>
    ELSE IF ~(PolicyStepKeywords \subseteq params)
    THEN <<CallOn("policy_step", Head(npcs), "raise")>>
    ELSE <<CallOn("policy_step", Head(npcs), "ok"), CallOn("apply_action", Head(npcs), "ok")>>
         \o NpcPolicyCalls(Tail(npcs), params)

\* for npc in npcs: npc.step_control(dt) (genesis_demo.py:370-371)
NpcControlCalls(npcs) == [i \in 1 .. npcs |-> CallOn("step_control", i, "ok")]

Raised(calls) == \E k \in DOMAIN calls : calls[k].status = "raise"

\* the command lines of the model
LoopArgs ==
    [npcs : 0 .. MaxNpcs, bench : BOOLEAN, bench_mode : BenchModes, collisions : BOOLEAN,
     collision_min_force : Thresholds, steps : 0 .. MaxTicks]

\* main up to sim.build() (genesis_demo.py:246-283): the car is constructed
InitLoop ==
    /\ NpcConstructed(NoGrid, 0, 0)
    /\ control_mode \in ControlModes
    /\ InitCollisionTracker
    /\ contacts_have_force \in BOOLEAN
    /\ grid = GridOf(1, 1, {})
    /\ AstarIdle
    /\ CallIdle
    /\ loop_args \in LoopArgs
    /\ loop_pc = "setup"
    /\ loop_step = 0
    /\ tick_calls = <<>>

\* if args.collisions: car.set_collision_targets(tracked_entities=tracked)
\* (genesis_demo.py:286-290); tracked is never empty, the scene has buildings
LoopSetup(tracked) ==
    /\ loop_pc = "setup"
    /\ tracked # <<>>
    /\ IF loop_args.collisions
       THEN SetCollisionTargets(tracked, <<>>)
       ELSE UNCHANGED <<collisionVars, collisionHist, contacts_have_force, astarVars, npcVars,
                        npcHist, carVars>>
    /\ loop_pc' = "car_action"
    /\ UNCHANGED <<loop_args, loop_step, tick_calls, callVars>>

\* the top of the loop body: the scripted action of the car
\* (genesis_demo.py:328-342)
LoopCarAction ==
    /\ loop_pc = "car_action"
    /\ loop_step < loop_args.steps
    /\ IF BenchModeOf(loop_args) # "physics_only"
       THEN /\ last_action' = ScriptedAction(loop_step)
            /\ target_speed' = SpeedAfter(ScriptedAction(loop_step), target_speed)
            /\ target_yaw_rate' = YawRateAfter(ScriptedAction(loop_step), target_yaw_rate)
            /\ tick_calls' = <<CallOn("apply_action", 0, "ok")>>
       ELSE /\ UNCHANGED <<last_action, target_speed, target_yaw_rate>>
            /\ tick_calls' = <<>>
    /\ loop_pc' = "policy"
    /\ UNCHANGED <<loop_args, loop_step, yaw, control_mode, sim_command>>
    /\ UNCHANGED <<goal_xy, prev_goal_dist, stuck_counter, nav_grid, waypoints_xy, waypoint_idx, last_xy>>
    /\ UNCHANGED <<collisionVars, contacts_have_force, collisionHist, astarVars, npcHist, callVars>>

\* the policy of every NPC and its action (genesis_demo.py:344-362); an
\* exception leaves the loop through the finally block (genesis_demo.py:438)
LoopPolicy ==
    /\ loop_pc = "policy"
    /\ IF BenchModeOf(loop_args) # "physics_only"
       THEN /\ tick_calls' = tick_calls \o NpcPolicyCalls(NpcList(loop_args.npcs), PolicyStepParams)
            /\ loop_pc' = IF Raised(tick_calls') THEN "aborted" ELSE "control"
       ELSE /\ UNCHANGED tick_calls
            /\ loop_pc' = "control"
    /\ UNCHANGED <<loop_args, loop_step>>
    /\ UNCHANGED <<collisionVars, contacts_have_force, collisionHist, astarVars, npcVars, npcHist,
                   carVars, callVars>>

\* car.step_control(dt) and every NPC's (genesis_demo.py:366-371), dt = 1
LoopControl ==
    /\ loop_pc = "control"
    /\ IF BenchModeOf(loop_args) # "physics_only"
       THEN /\ yaw' = YawAfter(yaw, target_yaw_rate, 1)
            /\ sim_command' = IF control_mode = "kinematic"
                              THEN KinematicCommand(yaw', target_speed, target_yaw_rate)
                              ELSE ForceTorqueCommand(yaw', last_action)
            /\ tick_calls' = Append(tick_calls, CallOn("step_control", 0, "ok"))
                                \o NpcControlCalls(loop_args.npcs)
       ELSE UNCHANGED <<yaw, sim_command, tick_calls>>
    /\ loop_pc' = "sim"
    /\ UNCHANGED <<loop_args, loop_step, target_speed, target_yaw_rate, last_action, control_mode>>
    /\ UNCHANGED <<goal_xy, prev_goal_dist, stuck_counter, nav_grid, waypoints_xy, waypoint_idx, last_xy>>
    /\ UNCHANGED <<collisionVars, contacts_have_force, collisionHist, astarVars, npcHist, callVars>>

\* sim.step() (genesis_demo.py:374-376)
LoopSimStep ==
    /\ loop_pc = "sim"
    /\ tick_calls' = IF BenchModeOf(loop_args) # "python_only"
                     THEN Append(tick_calls, CallOn("sim.step", Simulator, "ok"))
                     ELSE tick_calls
    /\ loop_pc' = "poll"
    /\ UNCHANGED <<loop_args, loop_step>>
    /\ UNCHANGED <<collisionVars, contacts_have_force, collisionHist, astarVars, npcVars, npcHist,
                   carVars, callVars>>

\* car.poll_collision_events (genesis_demo.py:379-381) on the contacts the
\* backend reports, and the end of the loop body
LoopPoll(contacts) ==
    /\ loop_pc = "poll"
    /\ IF loop_args.collisions /\ BenchModeOf(loop_args) = "full"
       THEN /\ PollStep(contacts, loop_args.collision_min_force)
            /\ tick_calls' = Append(tick_calls, CallOn("poll_collision_events", 0, "ok"))
       ELSE /\ contacts = <<>>
            /\ UNCHANGED <<collisionVars, collisionHist, contacts_have_force, astarVars, npcVars,
                           npcHist, carVars, tick_calls>>
    /\ loop_step' = loop_step + 1
    /\ loop_pc' = "car_action"
    /\ UNCHANGED <<loop_args, callVars>>

\* range(total_steps) is used up: main returns
LoopEnds ==
    /\ loop_pc = "car_action"
    /\ loop_step >= loop_args.steps
    /\ loop_pc' = "done"
    /\ UNCHANGED <<loop_args, loop_step, tick_calls>>
    /\ UNCHANGED <<collisionVars, contacts_have_force, collisionHist, astarVars, npcVars, npcHist,
                   carVars, callVars>>

NextLoop ==
    \/ \E tracked \in EntityLists : LoopSetup(tracked)
    \/ LoopCarAction
    \/ LoopPolicy
    \/ LoopControl
    \/ LoopSimStep
    \/ \E contacts \in ContactLists : LoopPoll(contacts)
    \/ LoopEnds

SpecLoop == InitLoop /\ [][NextLoop]_vars

----------------------------------------------------------------------------
(* Properties of the collision tracker *)

\* the events of phase ph emitted for e, as indices into the event list
EventsFor(e, ph, events) ==
    {i \in DOMAIN events : events[i].other_entity_id = e /\ events[i].phase = ph}

\* C1: for an entity E that is not active before a poll, a poll that sees a
\* qualifying contact with E emits exactly one BEGIN for E and no END; and if
\* the next poll sees no qualifying contact with E, it emits exactly one END
\* for E, with contact_count 0, and no BEGIN.
C1_BeginThenEnd ==
    [][hPolled' =>
        \A e \in EntityIds :
            LET b == EventsFor(e, "begin", collision_events_this_step')
                n == EventsFor(e, "end", collision_events_this_step')
            IN /\ (e \notin active_collision_entity_ids /\ hContact'[e])
                    => (Cardinality(b) = 1 /\ n = {})
               /\ (/\ hPolled
                   /\ EventsFor(e, "begin", collision_events_this_step) # {}
                   /\ ~hContact'[e])
                    => /\ Cardinality(n) = 1 /\ b = {}
                       /\ \A i \in n : collision_events_this_step'[i].contact_count = 0]_vars

\* a poll has just ended the contact of one entity and begun that of another
C1_Witness ==
    /\ hPolled
    /\ \E e1, e2 \in EntityIds :
          /\ EventsFor(e1, "begin", collision_events_this_step) # {}
          /\ EventsFor(e2, "end", collision_events_this_step) # {}
          /\ ~hContact[e2] /\ hContact[e1]

\* C2: between reconfigurations the events emitted for an entity alternate
\* BEGIN, END, BEGIN, ... starting with BEGIN (at most one per poll); a contact
\* that persists from one poll to the next emits nothing, and a poll that sees
\* the contacts of the previous one emits no event at all; an entity is active
\* exactly when the last event emitted for it was a BEGIN.
C2_Alternation ==
    [][/\ hPolled' =>
            /\ \A e \in EntityIds :
                LET ph == PhasesOf(e, collision_events_this_step')
                IN /\ Len(ph) <= 1
                   /\ ph # <<>> => /\ ph[1] # hLastPhase[e]
                                   /\ hLastPhase[e] = "none" => ph[1] = "begin"
                   /\ (hContact[e] /\ hContact'[e]) => ph = <<>>
            /\ hContact' = hContact => collision_events_this_step' = <<>>
       /\ \A e \in EntityIds :
            e \in active_collision_entity_ids' <=> hLastPhase'[e] = "begin"]_vars

\* a contact that began at an earlier poll is still there and the poll emitted nothing
C2_Witness ==
    /\ hPolled
    /\ collision_events_this_step = <<>>
    /\ \E e \in EntityIds : hContact[e] /\ hLastPhase[e] = "begin" /\ e \in active_collision_entity_ids

\* C7: in the event list of a poll every BEGIN precedes every END, and the
\* events of each of the two groups are in ascending entity id.
C7_EventOrder ==
    \A i, j \in DOMAIN collision_events_this_step :
        i < j =>
            LET x == collision_events_this_step[i]
                y == collision_events_this_step[j]
            IN /\ x.phase = "end" => y.phase = "end"
               /\ x.phase = y.phase => x.other_entity_id < y.other_entity_id

\* a BEGIN stands before the END of an entity of a smaller id
C7_Witness ==
    /\ hPolled
    /\ \E i, j \in DOMAIN collision_events_this_step :
          /\ i < j
          /\ collision_events_this_step[i].phase = "begin"
          /\ collision_events_this_step[j].phase = "end"
          /\ collision_events_this_step[i].other_entity_id > collision_events_this_step[j].other_entity_id

EndEventsNow == {i \in DOMAIN collision_events_this_step : collision_events_this_step[i].phase = "end"}

\* C8 as claimed: an END event carries the maximum force magnitude recorded
\* for its entity at the most recent poll at which the entity was active
\* (0.0 when that poll recorded none).
C8_EndCarriesLastPoll ==
    hPolled =>
        \A i \in EndEventsNow :
            collision_events_this_step[i].max_force = hLastPoll[collision_events_this_step[i].other_entity_id]

\* C8 amended: an END event carries the last known max force of its entity:
\* the maximum recorded at the most recent poll of the episode that measured
\* forces (a threshold requested, force data supplied), which need not be
\* the last poll at which the entity was active; 0.0 if no poll of the episode
\* measured any.
C8_EndCarriesLastMeasured ==
    hPolled =>
        \A i \in EndEventsNow :
            LET e == collision_events_this_step[i].other_entity_id
            IN collision_events_this_step[i].max_force =
                  (IF hLastMeasured[e] = NoForce THEN 0 ELSE hLastMeasured[e])

\* an END carries a force measured before the last poll at which its entity was active
C8_Witness ==
    /\ hPolled
    /\ \E i \in EndEventsNow :
          LET e == collision_events_this_step[i].other_entity_id
          IN /\ collision_events_this_step[i].max_force >= 1
             /\ hLastPoll[e] = 0

\* C9 as claimed: the END event of an episode carries the max_force of the
\* episode's BEGIN event (0.0 where the BEGIN carried none).
C9_EndCarriesBeginForce ==
    hPolled =>
        \A i \in EndEventsNow :
            LET e == collision_events_this_step[i].other_entity_id
            IN collision_events_this_step[i].max_force =
                  (IF hBeginForce[e] = NoForce THEN 0 ELSE hBeginForce[e])

\* C9 amended: the END event carries the max_force of the episode's BEGIN
\* event (0.0 where the BEGIN carried none) provided no later poll of the
\* episode measured a force for the entity; a later measurement replaces it,
\* whether larger or smaller.
C9_EndCarriesBeginForceUnlessRemeasured ==
    hPolled =>
        \A i \in EndEventsNow :
            LET e == collision_events_this_step[i].other_entity_id
            IN ~hRemeasured[e] =>
                  collision_events_this_step[i].max_force =
                      (IF hBeginForce[e] = NoForce THEN 0 ELSE hBeginForce[e])

\* an episode whose BEGIN measured a force ends with no measurement in between
C9_Witness ==
    /\ hPolled
    /\ \E i \in EndEventsNow :
          LET e == collision_events_this_step[i].other_entity_id
          IN ~hRemeasured[e] /\ hBeginForce[e] >= 1 /\ hLastPhase[e] = "end"

----------------------------------------------------------------------------
(* Properties of the planner *)

FreeCells(g) == {c \in Cells(g.width, g.height) : ~g.blocked[c[2] + 1][c[1] + 1]}

Adjacent(c, d) == Abs(c[1] - d[1]) + Abs(c[2] - d[2]) = 1

\* breadth-first search over the free cells: the number of steps of a shortest
\* 4-connected chain of free cells from the cells of `frontier` to goal, -1 if none
RECURSIVE BfsSteps(_, _, _, _, _)
BfsSteps(g, frontier, seen, goal, d) ==
    IF goal \in frontier THEN d
    ELSE IF frontier = {} THEN -1
    ELSE LET next == {c \in FreeCells(g) \ seen : \E f \in frontier : Adjacent(c, f)}
         IN BfsSteps(g, next, seen \cup next, goal, d + 1)

\* start and goal are free cells of the grid
FreeEndpoints(g, start, goal) == start \in FreeCells(g) /\ goal \in FreeCells(g)

ShortestSteps(g, start, goal) ==
    IF FreeEndpoints(g, start, goal) THEN BfsSteps(g, {start}, {start}, goal, 0) ELSE -1

AstarReturnedPath == astar_pc = "done" /\ astar_result # NoPath

\* C4: a path returned by astar has the least number of cells of all
\* 4-connected paths of free cells from start to goal; on a grid with no
\* blocked cell that is the Manhattan distance plus one (7 cells from <<0, 0>>
\* to <<3, 3>>).
C4_ShortestPath ==
    AstarReturnedPath =>
        /\ Len(astar_result) = ShortestSteps(grid, astar_start, astar_goal) + 1
        /\ FreeCells(grid) = Cells(grid.width, grid.height)
              => Len(astar_result) = Abs(astar_start[1] - astar_goal[1])
                                     + Abs(astar_start[2] - astar_goal[2]) + 1

\* a returned path that goes around blocked cells, longer than the Manhattan distance
C4_Witness ==
    /\ AstarReturnedPath
    /\ Len(astar_result) > Abs(astar_start[1] - astar_goal[1]) + Abs(astar_start[2] - astar_goal[2]) + 1

\* C5: a path returned by astar starts with the start cell, ends with the
\* goal cell, moves by one 4-connected step between consecutive cells, holds
\* only in-bounds unblocked cells and holds no cell twice.
C5_PathWellFormed ==
    AstarReturnedPath =>
        /\ astar_result[1] = astar_start
        /\ astar_result[Len(astar_result)] = astar_goal
        /\ \A i \in 1 .. (Len(astar_result) - 1) : Adjacent(astar_result[i], astar_result[i + 1])
        /\ \A i \in DOMAIN astar_result : astar_result[i] \in FreeCells(grid)
        /\ \A i, j \in DOMAIN astar_result : i # j => astar_result[i] # astar_result[j]

\* a returned path of the example's length, from one corner to the opposite one
C5_Witness ==
    /\ AstarReturnedPath
    /\ astar_start = <<0, 0>>
    /\ astar_goal = <<grid.width - 1, grid.height - 1>>
    /\ FreeCells(grid) # Cells(grid.width, grid.height)

\* C6: astar returns no path exactly when start or goal is out of bounds or
\* blocked, or no 4-connected chain of unblocked cells connects them.
C6_NoneIffUnreachable ==
    astar_pc = "done" =>
        (astar_result = NoPath <=> ShortestSteps(grid, astar_start, astar_goal) = -1)

\* free, in-bounds endpoints that no chain connects: the heap runs empty
C6_Witness ==
    /\ astar_pc = "done"
    /\ astar_result = NoPath
    /\ FreeEndpoints(grid, astar_start, astar_goal)
    /\ Cardinality(DOMAIN g_score) >= 1

----------------------------------------------------------------------------
(* Properties of the NPC policy *)

Turns == {"TURN_LEFT", "TURN_RIGHT"}

\* C3 as stated: stuck recovery fires exactly once per stuck episode, on the
\* StuckSteps-th consecutive policy_step call that sees no decrease of the
\* target distance by more than progress_eps, a call on a freshly picked goal
\* (no previous distance) counting as the first of them, and the stuck counter
\* is 0 after it.
C3_RecoveryOnStuckStepsCall ==
    /\ (policy_rule \in StuckRules) <=> hReachedCalls
    /\ policy_rule \in StuckRules => stuck_counter = 0

\* C3, amended: stuck recovery fires exactly once per stuck episode, on the
\* StuckSteps-th consecutive policy_step call that compares the target distance
\* with a recorded previous distance and finds no decrease by more than
\* progress_eps (the first call on a freshly picked goal only records the
\* distance and counts as none), and the stuck counter is 0 after it.
C3_RecoveryOnMeasuredCalls ==
    /\ (policy_rule \in StuckRules) <=> hReachedMeasured
    /\ policy_rule \in StuckRules => stuck_counter = 0

\* a recovery by replanning on the grid, after StuckSteps counted calls
C3_Witness ==
    /\ policy_rule = "stuck_replan"
    /\ hReachedMeasured
    /\ stuck_counter = 0
    /\ waypoints_xy # <<>>

\* C10: an agent that follows a goal with no waypoint list, bound to a grid or
\* not, and finds the goal within goal_tolerance of its position picks a new
\* goal and returns TURN_LEFT or TURN_RIGHT on that call.
C10_UnplannedGoalReached ==
    hUnplannedNear =>
        /\ policy_rule = "goal_reached"
        /\ policy_picks >= 1
        /\ policy_action \in Turns

\* the forward ray of the last policy_step hit within the brake distance
RayBrake == hRays.c.hit /\ hRays.c.distance # NoDist /\ hRays.c.distance <= brake_distance

\* C11: on a tick where the agent has a goal, no waypoint or goal-reached rule
\* and no stuck recovery fires, and the forward ray hits within the brake
\* distance, policy_step returns DECELERATE: the ray rule comes before proximity
\* avoidance and goal seeking.
C11_RayBrakeDecelerates ==
    (RayBrake /\ policy_picks = 0 /\ policy_rule \in {"avoid", "seek"}) => policy_action = "DECELERATE"

----------------------------------------------------------------------------
(* Properties of the CarBlock control *)

Clamp(lo, hi, x) == IF x < lo THEN lo ELSE IF x > hi THEN hi ELSE x

\* C12: apply_action with ACCELERATE / DECELERATE changes the target speed by
\* +speed_delta / -speed_delta clamped to [0, max_speed] and sets the target
\* yaw-rate to 0; with TURN_LEFT / TURN_RIGHT it sets the target yaw-rate to
\* +turn_rate / -turn_rate and leaves the target speed; so the target speed stays
\* in [0, max_speed] and the target yaw-rate in {-turn_rate, 0, +turn_rate}.
C12_ApplyActionTargets ==
    [][(call_op' = "apply_action" /\ call_result'.status = "ok") =>
          /\ call_args'[1] = 0 =>
                target_speed' = Clamp(0, max_speed, target_speed + speed_delta) /\ target_yaw_rate' = 0
          /\ call_args'[1] = 1 =>
                target_speed' = Clamp(0, max_speed, target_speed - speed_delta) /\ target_yaw_rate' = 0
          /\ call_args'[1] = 2 => target_speed' = target_speed /\ target_yaw_rate' = turn_rate
          /\ call_args'[1] = 3 => target_speed' = target_speed /\ target_yaw_rate' = 0 - turn_rate
          /\ 0 <= target_speed' /\ target_speed' <= max_speed
          /\ target_yaw_rate' \in {0 - turn_rate, 0, turn_rate}]_vars

\* the target speed is at the clamp after an ACCELERATE that followed a turn
C12_Witness ==
    /\ call_op = "apply_action"
    /\ call_args = <<0>>
    /\ target_speed = max_speed
    /\ target_yaw_rate = 0
    /\ yaw # 0

----------------------------------------------------------------------------
(* Properties of NavGrid.build *)

\* two closed intervals have a point in common
SpansMeet(a0, a1, b0, b1) == \E x \in a0 .. a1 : b0 <= x /\ x <= b1

\* the closed rectangle of cell <<ix, iy>> has a point in common with obstacle o
\* grown by r on every side
CellMeets(g, ix, iy, o, r) ==
    /\ SpansMeet(g.xy_min[1] + ix * g.cell_size, g.xy_min[1] + (ix + 1) * g.cell_size,
                 o.xmin - r, o.xmax + r)
    /\ SpansMeet(g.xy_min[2] + iy * g.cell_size, g.xy_min[2] + (iy + 1) * g.cell_size,
                 o.ymin - r, o.ymax + r)

BlockedCells(g) == {c \in Cells(g.width, g.height) : g.blocked[c[2] + 1][c[1] + 1]}

\* bounds (-2,-2)-(2,2), cell_size 1, one obstacle (-0.4,-0.4,0.4,0.4), inflate 0
ExampleBuild ==
    [bounds |-> <<<<-10, -10>>, <<10, 10>>>>, cell_size |-> 5,
     obstacles |-> <<AABB(-2, -2, 2, 2)>>, inflate |-> 0]

\* C13: after NavGrid.build a cell is blocked exactly when its closed rectangle
\* intersects, edge contact included, at least one obstacle rectangle inflated by
\* `inflate` on every side; in the example exactly the 4 cells touching the
\* origin are blocked.
C13_BlockedIffIntersects ==
    (call_op = "NavGrid.build" /\ call_result.status = "ok") =>
        /\ \A c \in Cells(call_result.value.width, call_result.value.height) :
               c \in BlockedCells(call_result.value)
                   <=> \E i \in 1 .. Len(call_args.obstacles) :
                           CellMeets(call_result.value, c[1], c[2], call_args.obstacles[i], call_args.inflate)
        /\ call_args = ExampleBuild =>
               BlockedCells(call_result.value) = {<<1, 1>>, <<2, 1>>, <<1, 2>>, <<2, 2>>}

\* a grid was built whose cell <<1, 0>> is blocked by edge contact only
C13_Witness ==
    /\ call_op = "NavGrid.build"
    /\ call_result.status = "ok"
    /\ call_args.bounds = <<<<0, 0>>, <<10, 5>>>>
    /\ call_args.obstacles = <<AABB(0, 0, 5, 5)>>
    /\ call_args.inflate = 0
    /\ BlockedCells(call_result.value) = {<<0, 0>>, <<1, 0>>}

----------------------------------------------------------------------------
(* Properties of simplify_path_cells *)

Step(path, i) == <<path[i + 1][1] - path[i][1], path[i + 1][2] - path[i][2]>>

\* the places of a path that are its ends or where the direction changes
KeptPlaces(path) ==
    {i \in 1 .. Len(path) : i = 1 \/ i = Len(path) \/ Step(path, i - 1) # Step(path, i)}

\* the cells of a path at the places of K, in the order of the path
CellsAt(path, K) ==
    [k \in 1 .. Cardinality(K) |-> path[CHOOSE i \in K : Cardinality({j \in K : j <= i}) = k]]

UnitSteps == {<<1, 0>>, <<-1, 0>>, <<0, 1>>, <<0, -1>>}

\* three or more cells, each one the same unit step after the one before
StraightRun(path) ==
    /\ Len(path) >= 3
    /\ \E d \in UnitSteps : \A i \in 1 .. Len(path) - 1 : Step(path, i) = d

\* C14: simplify_path_cells returns, in order, the first cell, every interior
\* cell whose incoming step direction differs from its outgoing one, and the
\* last cell; a straight run of 3 or more cells gives its 2 ends and a path of
\* 2 or fewer cells is returned unchanged.
C14_KeepsEndsAndTurns ==
    (call_op = "simplify_path_cells" /\ call_result.status = "ok") =>
        /\ call_result.value = CellsAt(call_args.path, KeptPlaces(call_args.path))
        /\ StraightRun(call_args.path) =>
               call_result.value = <<call_args.path[1], call_args.path[Len(call_args.path)]>>
        /\ Len(call_args.path) <= 2 => call_result.value = call_args.path

\* a path with a straight run and then a turn came back without the cell inside
\* the run
C14_Witness ==
    /\ call_op = "simplify_path_cells"
    /\ call_result.status = "ok"
    /\ call_args.path = <<<<0, 0>>, <<1, 0>>, <<2, 0>>, <<2, 1>>>>
    /\ call_result.value = <<<<0, 0>>, <<2, 0>>, <<2, 1>>>>

\* the cells from a to b when they share a row or a column
Segment(a, b) ==
    {<<x, y>> : x \in Min(a[1], b[1]) .. Max(a[1], b[1]), y \in Min(a[2], b[2]) .. Max(a[2], b[2])}

\* C15: for every path astar returns, two consecutive cells of the simplified
\* path share a row or a column and every cell on the segment between them is
\* a cell of the original path, so in bounds and not blocked.
C15_NoBlockedCellSkipped ==
    (call_op = "simplify_path_cells" /\ call_result.status = "ok" /\ call_args.from = "astar") =>
        \A k \in 1 .. Len(call_result.value) - 1 :
            /\ call_result.value[k][1] = call_result.value[k + 1][1]
                   \/ call_result.value[k][2] = call_result.value[k + 1][2]
            /\ \A c \in Segment(call_result.value[k], call_result.value[k + 1]) :
                   /\ c \in Range(call_args.path)
                   /\ InBounds(call_args.grid, c)
                   /\ ~IsBlocked(call_args.grid, c)

\* a path of astar that goes round a blocked cell came back shorter, with a turn
C15_Witness ==
    /\ call_op = "simplify_path_cells"
    /\ call_result.status = "ok"
    /\ call_args.from = "astar"
    /\ IsBlocked(call_args.grid, <<1, 0>>)
    /\ call_args.path[1] = <<0, 0>>
    /\ call_args.path[Len(call_args.path)] = <<3, 0>>
    /\ Len(call_result.value) >= 3
    /\ Len(call_result.value) < Len(call_args.path)

----------------------------------------------------------------------------
(* Properties of _avoid_with_proximity *)

\* obstacle o is another entity with a pose, away from the agent at p and ahead
\* of it when it heads along Forward(q)
Ahead(o, p, q) ==
    /\ o.kind = "entity"
    /\ Dist2(p, o.pos) > 0
    /\ (o.pos[1] - p[1]) * Forward(q)[1] + (o.pos[2] - p[2]) * Forward(q)[2] > 0

\* positive when o is to the left of the heading
CrossOf(o, p, q) == Forward(q)[1] * (o.pos[2] - p[2]) - Forward(q)[2] * (o.pos[1] - p[1])

\* the places of the obstacles ahead within radius r
AheadWithin(obs, p, q, r) ==
    {i \in 1 .. Len(obs) : Ahead(obs[i], p, q) /\ Dist2(p, obs[i].pos) <= r * r}

AvoidReturned == call_op = "_avoid_with_proximity" /\ call_result.status = "ok"

\* C16: proximity avoidance returns DECELERATE whenever at least one obstacle
\* other than the agent is ahead of it at a distance above 0 and at most the
\* emergency-brake radius, whatever the other obstacles and their order.
C16_BrakeOnAnyNearAhead ==
    (AvoidReturned
        /\ AheadWithin(call_args.obstacles, call_args.pose, call_args.yaw, emergency_brake_radius) # {})
    => call_result.value = "DECELERATE"

\* the brake came from the last of three obstacles, after one that asks for a turn
C16_Witness ==
    /\ AvoidReturned
    /\ Len(call_args.obstacles) = 3
    /\ AheadWithin(call_args.obstacles, call_args.pose, call_args.yaw, emergency_brake_radius) = {3}
    /\ 1 \in AheadWithin(call_args.obstacles, call_args.pose, call_args.yaw, avoid_radius)
    /\ call_result.value = "DECELERATE"

\* C17: when no obstacle triggers the emergency brake the result is decided by
\* the nearest obstacle ahead within the avoidance radius alone: TURN_RIGHT when
\* it is to the left (positive cross product), TURN_LEFT when it is to the right,
\* no decision when there is none; obstacles behind the agent or beyond the
\* avoidance radius never influence the result.
C17_NearestDecidesTurn ==
    (AvoidReturned
        /\ AheadWithin(call_args.obstacles, call_args.pose, call_args.yaw, emergency_brake_radius) = {})
    => LET obs == call_args.obstacles
           p == call_args.pose
           q == call_args.yaw
           cand == AheadWithin(obs, p, q, avoid_radius)
           nearest == {i \in cand : \A j \in cand : Dist2(p, obs[i].pos) <= Dist2(p, obs[j].pos)}
           Counts(o) == Ahead(o, p, q) /\ Dist2(p, o.pos) <= avoid_radius * avoid_radius
       IN /\ cand = {} <=> call_result.value = "none"
          /\ cand # {} =>
                 \E i \in nearest :
                     /\ call_result.value \in {"TURN_LEFT", "TURN_RIGHT"}
                     /\ CrossOf(obs[i], p, q) > 0 => call_result.value = "TURN_RIGHT"
                     /\ CrossOf(obs[i], p, q) < 0 => call_result.value = "TURN_LEFT"
          /\ call_result.value = AvoidWithProximity(SelectSeq(obs, Counts), p, q)

\* the nearest obstacle ahead is to the right and comes after a farther one to
\* the left and one behind the agent: the turn is to the left
C17_Witness ==
    /\ AvoidReturned
    /\ call_args.yaw = 0
    /\ call_args.obstacles = <<Obstacle("entity", <<800, 600>>), Obstacle("entity", <<-650, 100>>),
                               Obstacle("entity", <<700, -300>>)>>
    /\ call_result.value = "TURN_LEFT"

----------------------------------------------------------------------------
(* Properties of pick_new_goal *)

\* the samples of the draws whose cell astar reaches from the agent's cell
PlannedSamples ==
    {i \in 1 .. Max(1, MaxGoalSamples) :
        Astar(nav_grid, WorldToCell(nav_grid, last_xy),
              WorldToCell(nav_grid, call_args.rnd.samples[i])) # NoPath}

FirstPlanned == CHOOSE i \in PlannedSamples : \A j \in PlannedSamples : i <= j

\* C18: pick_new_goal on a grid-bound agent tries astar from the agent's cell
\* for at most max(1, max_goal_samples) sampled goals; the first success stores
\* the cell centers of the simplified path as waypoints with index 0; if every
\* attempt fails the goal is a random point and the waypoint list is empty; it
\* always returns, with a goal set, the stuck counter 0 and the previous goal
\* distance cleared.
C18_PickPlansOrFallsBack ==
    call_op = "pick_new_goal" =>
        /\ call_result.status \in {"pending", "ok"}
        /\ call_result.status = "ok" =>
              /\ call_result.value = goal_xy
              /\ goal_xy # NoPoint
              /\ stuck_counter = 0
              /\ prev_goal_dist = NoDist
              /\ waypoint_idx = 0
              /\ PlannedSamples # {} =>
                    /\ goal_xy = call_args.rnd.samples[FirstPlanned]
                    /\ waypoints_xy =
                           CellsToWaypoints(nav_grid,
                               SimplifyPathCells(
                                   Astar(nav_grid, WorldToCell(nav_grid, last_xy),
                                         WorldToCell(nav_grid, call_args.rnd.samples[FirstPlanned]))))
              /\ PlannedSamples = {} =>
                    /\ goal_xy = call_args.rnd.fallback
                    /\ waypoints_xy = <<>>

\* every sample failed for an agent that was under way: the fallback goal with
\* no waypoints
C18_Witness ==
    /\ call_op = "pick_new_goal"
    /\ call_result.status = "ok"
    /\ call_args.pose = <<250, 280>>
    /\ PlannedSamples = {}
    /\ goal_xy = <<1250, 250>>
    /\ waypoints_xy = <<>>
    /\ stuck_counter = 0

----------------------------------------------------------------------------
(* Properties of one observed poll *)

\* the step is the poll under observation
Observed == call_op = "idle" /\ call_op' = "poll_collision_events"

\* contact c touches the car and its other geometry lies in an ignored range
\* or in no tracked range
Discarded(c) ==
    /\ Mask(c)
    /\ \/ \E i \in DOMAIN collision_ignore_ranges :
              collision_ignore_ranges[i][1] <= OtherGeom(c) /\ OtherGeom(c) < collision_ignore_ranges[i][2]
       \/ ~\E i \in DOMAIN collision_tracked_ranges :
              collision_tracked_ranges[i][1] <= OtherGeom(c) /\ OtherGeom(c) < collision_tracked_ranges[i][2]

NotDiscarded(c) == ~Discarded(c)

\* the places in cs of the car's contacts with entity e that are not discarded
ContactsWith(e, cs) ==
    {i \in DOMAIN cs :
        /\ Mask(cs[i])
        /\ ~Discarded(cs[i])
        /\ \E k \in DOMAIN collision_tracked_ranges :
               /\ collision_tracked_ranges[k][3] = e
               /\ collision_tracked_ranges[k][1] <= OtherGeom(cs[i])
               /\ OtherGeom(cs[i]) < collision_tracked_ranges[k][2]}

\* C19: a contact whose other geometry index lies in an ignored range never
\* makes an entity active and never produces an event, even when a tracked
\* entity's range also holds that index, and a contact whose other index lies in
\* no tracked range is discarded as well: an entity is active after the poll and
\* gets a BEGIN only through a contact that is not discarded, and the poll gives
\* what it gives without the discarded contacts.
C19_DiscardedContactsCountForNothing ==
    [][Observed =>
          /\ \A e \in active_collision_entity_ids' : ContactsWith(e, call_args'.contacts) # {}
          /\ \A e \in EntityIds :
                 EventsFor(e, "begin", collision_events_this_step') # {}
                     => ContactsWith(e, call_args'.contacts) # {}
          /\ DiffAndEmit(Current(SelectSeq(call_args'.contacts, NotDiscarded),
                                 call_args'.min_force, contacts_have_force))]_vars

\* entity NumEntities is tracked and its range ignored; the car touched it and
\* the other entity: only the other entity began
C19_Witness ==
    /\ call_op = "poll_collision_events"
    /\ \E k \in DOMAIN collision_tracked_ranges : collision_tracked_ranges[k][3] = NumEntities
    /\ collision_ignore_ranges # <<>>
    /\ \E i \in DOMAIN call_args.contacts :
           Mask(call_args.contacts[i]) /\ OtherGeom(call_args.contacts[i]) = GeomStart(NumEntities)
    /\ active_collision_entity_ids = {1}
    /\ Len(collision_events_this_step) = 1

\* the places of the contacts with e whose force is at least min_force
StrongContactsWith(e, cs, min_force) == {i \in ContactsWith(e, cs) : cs[i].f >= min_force}

\* for each tracked entity: active after the poll exactly when a contact with it
\* has a force of at least min_force, a BEGIN that counts those contacts only,
\* and an END when it was active and all its contacts are weaker
ForceFilterHolds ==
    LET cs == call_args'.contacts
        mf == call_args'.min_force
    IN \A e \in collision_tracked_by_id :
          /\ e \in active_collision_entity_ids' <=> StrongContactsWith(e, cs, mf) # {}
          /\ \A i \in EventsFor(e, "begin", collision_events_this_step') :
                 /\ collision_events_this_step'[i].contact_count = Cardinality(StrongContactsWith(e, cs, mf))
                 /\ collision_events_this_step'[i].max_force
                        \in {cs[j].f : j \in StrongContactsWith(e, cs, mf)}
                 /\ \A j \in StrongContactsWith(e, cs, mf) :
                        cs[j].f <= collision_events_this_step'[i].max_force
          /\ (e \in active_collision_entity_ids /\ StrongContactsWith(e, cs, mf) = {})
                 => EventsFor(e, "end", collision_events_this_step') # {}

\* C20 as stated: with min_force > 0 a tracked entity is active after a poll if
\* and only if one of the tick's contacts with it has a force of at least
\* min_force; weaker contacts count neither toward contact_count nor toward
\* max_force, and an entity whose contacts are all weaker gets an END.
C20_ActiveIffStrongContact ==
    [][(Observed /\ call_args'.min_force > 0) => ForceFilterHolds]_vars

\* C20, amended: the same when the contact data carries the forces.
C20_ActiveIffStrongContactMeasured ==
    [][(Observed /\ call_args'.min_force > 0 /\ contacts_have_force) => ForceFilterHolds]_vars

\* an entity got an END from a poll with forces and min_force > 0 in which the
\* car still touched it
C20_Witness ==
    /\ call_op = "poll_collision_events"
    /\ call_args.min_force > 0
    /\ contacts_have_force
    /\ \E e \in collision_tracked_by_id :
           /\ EventsFor(e, "end", collision_events_this_step) # {}
           /\ ContactsWith(e, call_args.contacts) # {}

----------------------------------------------------------------------------
(* Properties of set_collision_targets *)

\* the step is a set_collision_targets: no poll is under observation after it
\* and none has read contact data since
Reconfigured == call_op' = "idle" /\ ~hPolled'

\* entity e has a contact in cs that counts at threshold min_force
ContactCounts(e, cs, min_force) ==
    IF ForceMeasured(min_force, contacts_have_force)
    THEN StrongContactsWith(e, cs, min_force) # {}
    ELSE ContactsWith(e, cs) # {}

\* C21: after set_collision_targets, whatever the state before, the active
\* set and the max-force map are empty and the call emits no event; so the next
\* poll gives a BEGIN to every tracked entity that is in contact, also to one
\* that was active before the call.
C21_TargetsResetCollisionState ==
    [][/\ Reconfigured =>
             /\ active_collision_entity_ids' = {}
             /\ active_collision_max_force' = EmptyForceMap
             /\ collision_events_this_step' = collision_events_this_step
       /\ (Observed /\ ~hPolled) =>
             \A e \in collision_tracked_by_id :
                 ContactCounts(e, call_args'.contacts, call_args'.min_force)
                     => EventsFor(e, "begin", collision_events_this_step') # {}]_vars

\* entity 1 got a BEGIN from a poll and is still tracked after a
\* set_collision_targets that left it in no active set
C21_Witness ==
    /\ call_op = "idle"
    /\ ~hPolled
    /\ 1 \in collision_tracked_by_id
    /\ EventsFor(1, "begin", collision_events_this_step) # {}
    /\ active_collision_entity_ids = {}
    /\ active_collision_max_force = EmptyForceMap

----------------------------------------------------------------------------
(* Properties of a poll without contact introspection *)

\* C22: if the backend cannot supply contact introspection (no get_contacts,
\* no geometry range, no mapping with both geometry arrays, no tensor library)
\* poll_collision_events returns an empty event list and does not raise,
\* whatever collisions were active before.
C22_BlindPollReturnsNoEvent ==
    [][(call_op = "idle" /\ call_op' = "poll_collision_events without introspection") =>
          /\ call_result'.status = "ok"
          /\ call_result'.value = <<>>
          /\ collision_events_this_step' = <<>>]_vars

----------------------------------------------------------------------------
(* Properties of the tick loop *)

\* the places of the current tick's calls `op` on `agent` that returned
CallsOf(op, agent) ==
    {k \in DOMAIN tick_calls : tick_calls[k] = CallOn(op, agent, "ok")}

\* the loop body has been left: at its end, or by an exception
TickOver == (loop_pc \in {"car_action", "done"} /\ loop_step > 0) \/ loop_pc = "aborted"

\* C23: in every tick of the control loop each agent (the car and every NPC)
\* is actuated once: one apply_action and one step_control, both after the
\* agent's policy_step of the tick (the car is scripted and has none) and
\* before the physics step; and poll_collision_events runs after the physics
\* step of the tick.
C23_ActuatedOnceBetweenPolicyAndPhysics ==
    TickOver =>
       /\ \A a \in 0 .. loop_args.npcs :
             /\ Cardinality(CallsOf("apply_action", a)) = 1
             /\ Cardinality(CallsOf("step_control", a)) = 1
             /\ a >= 1 => \E p \in CallsOf("policy_step", a) :
                             \A m \in CallsOf("apply_action", a) \cup CallsOf("step_control", a) : p < m
             /\ \A m \in CallsOf("apply_action", a) \cup CallsOf("step_control", a) :
                   \A s \in CallsOf("sim.step", Simulator) : m < s
       /\ \A q \in CallsOf("poll_collision_events", 0) :
             \E s \in CallsOf("sim.step", Simulator) : s < q

\* how the policy_step of NPC a ended in a list of calls
PolicyOutcome(a, calls) ==
    IF \E k \in DOMAIN calls : calls[k] = CallOn("policy_step", a, "ok") THEN "action"
    ELSE IF \E k \in DOMAIN calls : calls[k] = CallOn("policy_step", a, "raise") THEN "raise"
    ELSE "not called"

\* the orders in which the NPCs of the tick can be processed
NpcOrders(n) == {o \in [1 .. n -> 1 .. n] : \A i, j \in 1 .. n : o[i] = o[j] => i = j}

\* the policy phase of the tick is over
PoliciesRun ==
    /\ loop_pc \in {"control", "aborted"}
    /\ BenchModeOf(loop_args) # "physics_only"

\* C24: within one tick every NPC gets an action from its policy_step, and
\* it is the one it gets when the NPCs are processed in any other order.
C24_ActionsIndependentOfOrder ==
    PoliciesRun =>
       \A a \in 1 .. loop_args.npcs :
          /\ PolicyOutcome(a, tick_calls) = "action"
          /\ \A o \in NpcOrders(loop_args.npcs) :
                PolicyOutcome(a, NpcPolicyCalls(o, PolicyStepParams)) = PolicyOutcome(a, tick_calls)

----------------------------------------------------------------------------
(* Properties of the control of a CarBlock *)

\* v scaled by k
Scaled(k, v) == <<k * v[1], k * v[2], 0>>

\* a step_control call has just returned
Stepped == call_op' = "step_control" /\ call_result'.status = "ok"

\* C26: in force/torque mode step_control hands the simulator a force of
\* +force (last action ACCELERATE) or -force (DECELERATE) along the heading
\* and none otherwise, and a torque of +torque (TURN_LEFT) or -torque
\* (TURN_RIGHT) about the vertical axis and none otherwise; never both, none
\* of them before any action was applied, and no velocity.
C26_ForceTorqueFollowsLastAction ==
    [][(Stepped /\ control_mode = "force_torque") =>
          /\ sim_command'.op = "apply_force_torque"
          /\ DOMAIN sim_command' = {"op", "force", "torque"}
          /\ sim_command'.force =
                CASE last_action = "ACCELERATE" -> Scaled(config_force, Forward(yaw'))
                  [] last_action = "DECELERATE" -> Scaled(0 - config_force, Forward(yaw'))
                  [] OTHER -> <<0, 0, 0>>
          /\ sim_command'.torque =
                CASE last_action = "TURN_LEFT" -> <<0, 0, config_torque>>
                  [] last_action = "TURN_RIGHT" -> <<0, 0, 0 - config_torque>>
                  [] OTHER -> <<0, 0, 0>>
          /\ sim_command'.force = <<0, 0, 0>> \/ sim_command'.torque = <<0, 0, 0>>
          /\ last_action = "none" =>
                sim_command'.force = <<0, 0, 0>> /\ sim_command'.torque = <<0, 0, 0>>]_vars

C26_Witness ==
    /\ call_op = "step_control"
    /\ control_mode = "force_torque"
    /\ last_action = "DECELERATE"
    /\ yaw = 1
    /\ sim_command.force = <<0, 0 - config_force, 0>>

\* C27: the yaw estimate changes only in step_control, which adds
\* target_yaw_rate * dt to it in kinematic and in force/torque mode alike;
\* apply_action, policy_step, set_collision_targets and
\* poll_collision_events leave it as it is.
C27_YawOwnedByStepControl ==
    [][/\ call_op' = "step_control" =>
             yaw' = yaw + (target_yaw_rate * call_args'[1]) \div turn_rate
       /\ call_op' \in {"apply_action", "policy_step", "set_collision_targets",
                        "poll_collision_events"} => yaw' = yaw]_vars

C27_Witness ==
    /\ call_op = "poll_collision_events"
    /\ control_mode = "force_torque"
    /\ yaw = 0 - 2
    /\ policy_action # "none"
    /\ active_collision_entity_ids = {1}

----------------------------------------------------------------------------
(* Properties of goal seeking, on angles in millionths of a radian *)

\* a quarter turn, and the heading threshold
QuarterMicro == 1570796
HeadingThresholdMicro == 350000

\* the angle of the vectors goal seeking is given: atan2(d[2], d[1])
AngleMicro(d) ==
    CASE d = <<0, 0>> -> 0
      [] d = <<1000, 0>> -> 0
      [] d = <<1000, 1000>> -> QuarterMicro \div 2
      [] d = <<0, 1000>> -> QuarterMicro
      [] d = <<-1000, 1000>> -> 3 * (QuarterMicro \div 2)
      [] d = <<-1000, 0>> -> 2 * QuarterMicro
      [] d = <<-1000, -1000>> -> 0 - 3 * (QuarterMicro \div 2)
      [] d = <<0, -1000>> -> 0 - QuarterMicro
      [] d = <<1000, -1000>> -> 0 - (QuarterMicro \div 2)
      [] d = <<1000, 365>> -> 349975
      [] d = <<1000, 366>> -> 350857
      [] d = <<1000, -365>> -> 0 - 349975
      [] d = <<1000, -366>> -> 0 - 350857

\* the shortest signed angles equal to a up to whole turns: one, or both of
\* pi and -pi
ShortestAngles(a) ==
    {e \in {a + k * 4 * QuarterMicro : k \in (0 - MaxYaw - 1) .. (MaxYaw + 1)} :
        Abs(e) <= 2 * QuarterMicro}

\* C28: goal seeking takes the shortest signed angle, within [-pi, pi], from
\* the yaw to the bearing of the target; beyond the heading threshold it
\* returns TURN_LEFT for a positive and TURN_RIGHT for a negative angle,
\* within it ACCELERATE below the cruise speed and DECELERATE from it on.
C28_GoalSeekTurnsThenCruises ==
    (call_op = "goal seeking" /\ call_result.status = "ok") =>
       /\ ShortestAngles(AngleMicro(call_args.d) - call_args.q * QuarterMicro) # {}
       /\ \E e \in ShortestAngles(AngleMicro(call_args.d) - call_args.q * QuarterMicro) :
             call_result.value =
                IF Abs(e) > HeadingThresholdMicro
                THEN (IF e > 0 THEN "TURN_LEFT" ELSE "TURN_RIGHT")
                ELSE IF call_args.speed < cruise_speed THEN "ACCELERATE" ELSE "DECELERATE"

C28_Witness ==
    /\ call_op = "goal seeking"
    /\ call_args = [d |-> <<1000, 365>>, q |-> 4, speed |-> cruise_speed]
    /\ call_result = Result("ok", "DECELERATE")

----------------------------------------------------------------------------
(* Properties of NavGrid.world_to_cell *)

\* the grid of the call
CellGrid ==
    NavGridBuild(call_args.bounds[1], call_args.bounds[2], call_args.cell_size, <<>>, 0).value

\* C29: world_to_cell returns a cell of the grid for every world point.  On
\* each axis, a coordinate inside the bounds (from the lower edge up to, not
\* including, the upper edge) gets the index of the cell it lies in, the
\* floor of its offset in cells; a coordinate below the bounds gets index 0
\* and one at or beyond the upper edge the last index, the nearest boundary
\* cell.
C29_WorldToCellInGrid ==
    (call_op = "NavGrid.world_to_cell" /\ call_result.status = "ok") =>
       /\ InBounds(CellGrid, call_result.value)
       /\ \A k \in {1, 2} :
             LET lo == call_args.bounds[1][k]
                 hi == call_args.bounds[2][k]
                 x == call_args.p[k]
                 i == call_result.value[k]
                 last == IF k = 1 THEN CellGrid.width - 1 ELSE CellGrid.height - 1
             IN /\ (lo <= x /\ x < hi) =>
                      /\ lo + i * call_args.cell_size <= x
                      /\ x < lo + (i + 1) * call_args.cell_size
                /\ x < lo => i = 0
                /\ x >= hi => i = last

C29_Witness ==
    /\ call_op = "NavGrid.world_to_cell"
    /\ call_args = [bounds |-> <<<<0, 0>>, <<10, 5>>>>, cell_size |-> 5, p |-> <<10, 3>>]
    /\ call_result = Result("ok", <<1, 0>>)

----------------------------------------------------------------------------
(* Properties of a misconfigured CarBlock *)

\* C30: an agent whose control mode is neither kinematic nor force/torque
\* never hands a command to the simulator and never changes its yaw: every
\* step_control raises before doing either.
C30_InvalidModeIsFatal ==
    [][control_mode \notin ControlModes =>
          /\ yaw' = yaw
          /\ sim_command' = <<>>
          /\ call_op' = "step_control" => call_result'.status = "raise"]_vars

C30_Witness ==
    /\ control_mode \notin ControlModes
    /\ call_op = "step_control"
    /\ call_result.status = "raise"
    /\ target_yaw_rate # 0
    /\ target_speed > 0

----------------------------------------------------------------------------
(* Properties of stuck recovery *)

\* the last policy_step was given an obstacle ahead of the agent within the
\* emergency-brake radius
BrakeAhead ==
    /\ call_args.given
    /\ \E i \in DOMAIN call_args.list :
          LET o == call_args.list[i]
          IN /\ o.kind = "entity"
             /\ Dist2(last_xy, o.pos) > 0
             /\ Within(Dist2(last_xy, o.pos), emergency_brake_radius)
             /\ (o.pos[1] - last_xy[1]) * Forward(yaw)[1] + (o.pos[2] - last_xy[2]) * Forward(yaw)[2] > 0

\* C31: on the tick at which the stuck counter reaches stuck_steps,
\* policy_step returns TURN_LEFT or TURN_RIGHT, whether it replans, replans
\* in vain and picks a new goal, or picks a new goal without a grid, and
\* whatever obstacle is ahead within the emergency-brake radius.
C31_StuckTickTurns ==
    (call_op = "policy_step" /\ hReachedMeasured) =>
       /\ policy_action \in Turns
       /\ policy_rule \in StuckRules

C31_Witness ==
    /\ call_op = "policy_step"
    /\ hReachedMeasured
    /\ BrakeAhead
    /\ policy_rule = "stuck_new_goal"
    /\ nav_grid # NoGrid
    /\ policy_action \in Turns

\* the path a replan of the agent asks of astar: from the cell of its position
\* after the call to the cell of the goal it had
ReplanPath == Astar(nav_grid, WorldToCell(nav_grid, last_xy'), WorldToCell(nav_grid, goal_xy))

\* C32: a stuck replan that succeeds on a grid-bound agent puts the
\* simplified astar path from the agent's cell to the goal's cell in place of
\* the waypoints (from the center of the agent's cell to the center of the
\* goal's), sets the waypoint index and the stuck counter to 0 and keeps the
\* goal; a stuck agent picks a new goal only if astar finds no path or no
\* grid is bound.
C32_ReplanKeepsGoal ==
    [][/\ policy_rule' = "stuck_replan" =>
             LET path == ReplanPath
             IN  /\ nav_grid # NoGrid /\ nav_grid' = nav_grid
                 /\ path # NoPath
                 /\ waypoints_xy' = CellsToWaypoints(nav_grid, SimplifyPathCells(path))
                 /\ waypoints_xy'[1] = CellCenterWorld(nav_grid, WorldToCell(nav_grid, last_xy'))
                 /\ waypoints_xy'[Len(waypoints_xy')] = CellCenterWorld(nav_grid, WorldToCell(nav_grid, goal_xy))
                 /\ waypoint_idx' = 0
                 /\ stuck_counter' = 0
                 /\ goal_xy' = goal_xy
                 /\ policy_picks' = 0
       /\ policy_rule' = "stuck_new_goal" =>
             /\ policy_picks' = 1
             /\ nav_grid = NoGrid \/ ReplanPath = NoPath]_vars

C32_Witness ==
    /\ call_op = "policy_step"
    /\ policy_rule = "stuck_replan"
    /\ Len(waypoints_xy) >= 2
    /\ waypoint_idx = 0
    /\ stuck_counter = 0
    /\ goal_xy # NoPoint

----------------------------------------------------------------------------
(* Properties of ray avoidance *)

RaysReturned == call_op = "_avoid_with_rays" /\ call_result.status = "ok"

\* the forward ray gives nothing to act on
ForwardClear ==
    LET c == call_args.rays.c
    IN ~c.hit \/ c.distance = NoDist \/ c.distance > avoid_distance

\* a side ray hits at a distance within avoid_distance
HitWithin(ray) == ray.hit /\ ray.distance # NoDist /\ ray.distance <= avoid_distance

\* a side ray hits within avoid_distance or at no usable distance
HitWithinOrUnmeasured(ray) == ray.hit /\ (ray.distance = NoDist \/ ray.distance <= avoid_distance)

\* the decision of the statement, left and right telling which sides are blocked
RayDecision(left, right) ==
    IF ForwardClear THEN "none"
    ELSE IF call_args.rays.c.distance <= brake_distance THEN "DECELERATE"
    ELSE IF left /\ ~right THEN "TURN_RIGHT"
    ELSE IF right /\ ~left THEN "TURN_LEFT"
    ELSE CoinTurn(call_args.coin)

\* C33 as stated: no decision when the forward ray misses, hits at no usable
\* distance or beyond avoid_distance, DECELERATE when it hits within
\* brake_distance, else away from the one side whose ray hits within
\* avoid_distance, and a random turn when both or neither side does.
C33_RayDecisionByDistance ==
    RaysReturned =>
        call_result.value = RayDecision(HitWithin(call_args.rays.l), HitWithin(call_args.rays.r))

\* C33, amended: the same, a side ray counting as blocked when it hits within
\* avoid_distance or hits at no usable distance.
C33_RayDecision ==
    RaysReturned =>
        call_result.value = RayDecision(HitWithinOrUnmeasured(call_args.rays.l),
                                        HitWithinOrUnmeasured(call_args.rays.r))

C33_Witness ==
    /\ RaysReturned
    /\ ~ForwardClear
    /\ call_args.rays.c.distance > brake_distance
    /\ call_args.rays.l = RayHit(NoDist)
    /\ call_args.rays.r = RayMiss
    /\ call_args.coin
    /\ call_result.value = "TURN_RIGHT"

----------------------------------------------------------------------------
(* Properties of proximity avoidance over the obstacle list *)

ProximityReturned == call_op = "_avoid_with_proximity" /\ call_result.status # "pending"

\* the obstacles whose position can be read
WithoutUnposed(obs) == SelectSeq(obs, LAMBDA o : o.kind # "unposed")

\* C34: an obstacle whose position cannot be read counts as absent: while
\* the agent's own position can be read, proximity avoidance returns, without
\* raising, the decision it makes on the list without such obstacles.
C34_UnreadObstacleIsAbsent ==
    (ProximityReturned /\ call_args.pose # NoPoint) =>
        /\ call_result.status = "ok"
        /\ call_result.value \in {"none", "DECELERATE", "TURN_LEFT", "TURN_RIGHT"}
        /\ call_result.value =
               AvoidWithProximity(WithoutUnposed(call_args.obstacles), call_args.pose, call_args.yaw)

C34_Witness ==
    /\ ProximityReturned
    /\ call_args.pose # NoPoint
    /\ Len(call_args.obstacles) = 3
    /\ call_args.obstacles[2].kind = "unposed"
    /\ call_args.obstacles[1].kind = "entity"
    /\ call_args.obstacles[3].kind = "entity"
    /\ call_result = Result("ok", "TURN_LEFT")
    /\ AvoidWithProximity(SubSeq(call_args.obstacles, 1, 1), call_args.pose, call_args.yaw) = "TURN_RIGHT"

----------------------------------------------------------------------------
(* Properties of the counters of the agent *)

\* C35: every policy_step call leaves the stuck counter in 0 .. stuck_steps - 1:
\* the call adds exactly 1 to it or sets it to 0, and sets it to 0 whenever it
\* recovers from being stuck or picks a new goal.
C35_StuckCounterBounded ==
    [][/\ stuck_counter' \in 0 .. StuckSteps - 1
       /\ stuck_counter' \in {0, stuck_counter + 1}
       /\ (policy_rule' \in StuckRules \/ policy_picks' >= 1) => stuck_counter' = 0]_vars

C35_Witness ==
    /\ call_op = "policy_step"
    /\ stuck_counter = StuckSteps - 1
    /\ policy_rule = "avoid"
    /\ policy_picks = 0

\* the call of the step made a new plan: a new goal, a stuck recovery or a
\* new grid
Replanned ==
    \/ call_op' \in {"pick_new_goal", "set_nav_grid"}
    \/ call_op' = "policy_step" /\ (policy_picks' >= 1 \/ policy_rule' \in StuckRules)

\* C36: after every policy_step, pick_new_goal and set_nav_grid call the
\* waypoint index lies in 0 .. number of waypoints; after a policy_step on an
\* agent with a grid and waypoints it is below the number of waypoints; a call
\* that makes no new plan keeps the waypoints and never lowers the index.
C36_WaypointIndexInRange ==
    [][/\ waypoint_idx' \in 0 .. Len(waypoints_xy')
       /\ (call_op' = "policy_step" /\ nav_grid' # NoGrid /\ waypoints_xy' # <<>>) =>
              waypoint_idx' < Len(waypoints_xy')
       /\ ~Replanned => (waypoint_idx' >= waypoint_idx /\ waypoints_xy' = waypoints_xy)]_vars

C36_Witness ==
    /\ call_op = "policy_step"
    /\ policy_picks = 0
    /\ policy_rule \notin StuckRules
    /\ nav_grid # NoGrid
    /\ waypoint_idx >= 1
    /\ waypoint_idx < Len(waypoints_xy)

----------------------------------------------------------------------------
(* Properties of the collision maps *)

\* the keys of _active_collision_max_force
MaxForceKeys == {e \in EntityIds : active_collision_max_force[e] # NoForce}

\* C37: after every poll_collision_events and set_collision_targets call the
\* keys of the max-force map are the active entity ids, and every active id is
\* the id of a tracked entity.
C37_ForceKeysAreActiveIds ==
    /\ MaxForceKeys = active_collision_entity_ids
    /\ active_collision_entity_ids \subseteq collision_tracked_by_id

C37_Witness ==
    /\ hPolled
    /\ collision_events_this_step # <<>>
    /\ \E e \in active_collision_entity_ids : active_collision_max_force[e] = 0
    /\ \E e \in collision_tracked_by_id : e \notin active_collision_entity_ids

----------------------------------------------------------------------------
(* Properties of proximity avoidance under reordering *)

\* the orders of a list of n obstacles, and the list in one of them
Orders(n) == {f \in [1 .. n -> 1 .. n] : \A i, j \in 1 .. n : f[i] = f[j] => i = j}
Reordered(obs, f) == [i \in 1 .. Len(obs) |-> obs[f[i]]]

\* the results of the call on every order of its obstacle list
ResultsOverOrders ==
    {AvoidWithProximity(Reordered(call_args.obstacles, f), call_args.pose, call_args.yaw) :
        f \in Orders(Len(call_args.obstacles))}

\* the obstacles ahead within the avoidance radius that are nearest to the agent
NearestAhead ==
    LET obs == call_args.obstacles
        p == call_args.pose
        cand == AheadWithin(obs, p, call_args.yaw, avoid_radius)
    IN {i \in cand : \A j \in cand : Dist2(p, obs[i].pos) <= Dist2(p, obs[j].pos)}

\* no obstacle asks for the brake and two nearest ones ask for different turns
NearestDisagree ==
    /\ AheadWithin(call_args.obstacles, call_args.pose, call_args.yaw, emergency_brake_radius) = {}
    /\ \E i, j \in NearestAhead :
          (CrossOf(call_args.obstacles[i], call_args.pose, call_args.yaw) > 0)
              # (CrossOf(call_args.obstacles[j], call_args.pose, call_args.yaw) > 0)

\* C38 as stated: proximity avoidance returns the same action on every order
\* of one obstacle list, two nearest obstacles at one distance on opposite
\* sides of the heading included.
C38_SameUnderEveryOrder ==
    AvoidReturned => ResultsOverOrders = {call_result.value}

\* C38, amended: proximity avoidance returns the same action on every order
\* of one obstacle list unless the nearest obstacles ahead are at one distance
\* on different sides of the heading; then the first of them in the list
\* decides the turn, so both turns occur among the orders.
C38_SameUnderOrderUnlessTied ==
    AvoidReturned =>
        /\ ~NearestDisagree => ResultsOverOrders = {call_result.value}
        /\ NearestDisagree =>
              LET first == CHOOSE i \in NearestAhead : \A j \in NearestAhead : i <= j
              IN /\ call_result.value =
                        (IF CrossOf(call_args.obstacles[first], call_args.pose, call_args.yaw) > 0
                         THEN "TURN_RIGHT" ELSE "TURN_LEFT")
                 /\ ResultsOverOrders = {"TURN_LEFT", "TURN_RIGHT"}

\* two nearest obstacles at one distance, the first to the right of the heading
\* and the other to the left, a third obstacle before them: the turn is to the left
C38_Witness ==
    /\ AvoidReturned
    /\ Len(call_args.obstacles) = 3
    /\ NearestDisagree
    /\ NearestAhead = {2, 3}
    /\ CrossOf(call_args.obstacles[2], call_args.pose, call_args.yaw) < 0
    /\ call_result.value = "TURN_LEFT"

----------------------------------------------------------------------------
(* Properties of simplify_path_cells applied again *)

\* each cell of the path is one unit step from the cell before
FourConnected(path) == \A i \in 1 .. Len(path) - 1 : Step(path, i) \in UnitSteps

\* C39: for every 4-connected path simplify_path_cells gives its own result
\* back when applied to it, and the result is made of cells of the path at
\* increasing places, the first and the last cell among them.
C39_SimplifyIdempotent ==
    (call_op = "simplify_path_cells" /\ call_result.status = "ok" /\ FourConnected(call_args.path)) =>
        /\ SimplifyPathCells(call_result.value) = call_result.value
        /\ \E K \in SUBSET (1 .. Len(call_args.path)) :
              /\ call_result.value = CellsAt(call_args.path, K)
              /\ call_args.path # <<>> => {1, Len(call_args.path)} \subseteq K

\* a path of astar with a straight run and turns came back shorter, and the
\* shorter path still has a turn
C39_Witness ==
    /\ call_op = "simplify_path_cells"
    /\ call_result.status = "ok"
    /\ call_args.from = "astar"
    /\ FourConnected(call_args.path)
    /\ Len(call_args.path) >= 5
    /\ Len(call_result.value) >= 3
    /\ Len(call_result.value) < Len(call_args.path)
    /\ SimplifyPathCells(call_result.value) = call_result.value

----------------------------------------------------------------------------
(* Termination of astar *)

\* C40: astar terminates for every grid, start and goal: no pass of the loop
\* raises the g_score of a cell or forgets it, an entry is pushed onto the open
\* heap only for a cell whose g_score it strictly lowers (or sets for the
\* first time), with that g_score, and a search that is in its loop comes to
\* its end, the heap empty or the goal popped.
C40_AstarTerminates ==
    /\ [][/\ \A c \in DOMAIN g_score : c \in DOMAIN g_score' /\ g_score'[c] <= g_score[c]
          /\ \A e \in open_heap' \ open_heap :
                /\ g_score'[e[3]] = e[2]
                /\ e[3] \in DOMAIN g_score => e[2] < g_score[e[3]]]_vars
    /\ (astar_pc = "loop") ~> (astar_pc = "done" /\ (open_heap = {} \/ astar_result # NoPath))

\* a search ended with the heap empty and without a path after more than one
\* pass of its loop
C40_Witness ==
    /\ astar_pc = "done"
    /\ astar_result = NoPath
    /\ open_heap = {}
    /\ Cardinality(DOMAIN g_score) >= 3
====
